---- MODULE Spec2Model ----
(***************************************************************************)
(* Network session and event-dispatch layer of skitspel:                   *)
(*   plugins/network/src/event.rs    wire codec, event types               *)
(*   plugins/network/src/network.rs  listener, per-connection handlers,    *)
(*                                   event dispatcher, session iterators   *)
(*   common/skitspel/src/player.rs   PlayerIdGenerator                     *)
(*   server/src/main.rs              the simulation loop's two readers     *)
(***************************************************************************)
EXTENDS Integers, Sequences, FiniteSets, TLC

(***************************************************************************)
(* Bounds of the model.                                                    *)
(***************************************************************************)
\* connections the listener accepts
MaxPlayers == 2
\* messages all connections together deliver during their Serve loops
MaxReads == 2
\* messages the single flooding connection delivers during its Serve loop
FloodReads == 22
\* messages the single connection of the malformed-message scenario delivers
InvalidReads == 3
\* messages sent beyond the capacity of a bounded queue in the overflow scenario
OverflowReads == 1
\* messages the single connection of the codec scenario delivers in Serve
CodecReads == 1

(***************************************************************************)
(* Program constants.                                                      *)
(***************************************************************************)
EVENT_CHANNEL_BUF_SIZE == 20

PlayerIds == 1..MaxPlayers

(***************************************************************************)
(* event.rs: event types.  Every NetworkEvent is a record of one shape so  *)
(* that events of different variants can share a queue.  sink = 0 is None, *)
(* sink = p is Some(outbound half of connection p).                        *)
(***************************************************************************)
\* a table with two codes exchanged
ActionTable_swapped ==
    << "UpPressed", "UpReleased", "RightReleased", "RightPressed",
       "DownPressed", "DownReleased", "LeftPressed", "LeftReleased",
       "APressed", "AReleased", "BPressed", "BReleased" >>

ActionTable ==
    << "UpPressed", "UpReleased", "RightPressed", "RightReleased",
       "DownPressed", "DownReleased", "LeftPressed", "LeftReleased",
       "APressed", "AReleased", "BPressed", "BReleased" >>

ActionNone == "None"

Connected(name, sink) ==
    [kind |-> "Connected", name |-> name, sink |-> sink, action |-> "", data |-> <<>>]

Disconnected ==
    [kind |-> "Disconnected", name |-> <<>>, sink |-> 0, action |-> "", data |-> <<>>]

Action(a) ==
    [kind |-> "Action", name |-> <<>>, sink |-> 0, action |-> a, data |-> <<>>]

Invalid(bytes) ==
    [kind |-> "Invalid", name |-> <<>>, sink |-> 0, action |-> "", data |-> bytes]

EventMessage(p, e) == [player_id |-> p, event |-> e]

\* impl Clone for GeneralEvent: the clone of Connected never carries the sink
clone(e) == IF e.kind = "Connected" THEN Connected(e.name, 0) ELSE e

(***************************************************************************)
(* event.rs: wire codec.  A message is a sequence of bytes (0..255); a     *)
(* name is the sequence of code points std::str::from_utf8 accepts.        *)
(***************************************************************************)
IsCont(b) == b >= 128 /\ b <= 191

RECURSIVE from_utf8(_)
from_utf8(bs) ==
    IF Len(bs) = 0 THEN [ok |-> TRUE, chars |-> <<>>]
    ELSE
      LET b1 == bs[1]
          n  == Len(bs)
          rest(k) == from_utf8(SubSeq(bs, k + 1, n))
          cons(c, k) == LET r == rest(k)
                        IN  IF r.ok THEN [ok |-> TRUE, chars |-> <<c>> \o r.chars]
                            ELSE [ok |-> FALSE, chars |-> <<>>]
          bad == [ok |-> FALSE, chars |-> <<>>]
      IN  IF b1 <= 127 THEN cons(b1, 1)
          ELSE IF b1 >= 194 /\ b1 <= 223 THEN
               IF n >= 2 /\ IsCont(bs[2])
               THEN cons((b1 - 192) * 64 + (bs[2] - 128), 2) ELSE bad
          ELSE IF b1 >= 224 /\ b1 <= 239 THEN
               IF /\ n >= 3 /\ IsCont(bs[2]) /\ IsCont(bs[3])
                  /\ (b1 = 224 => bs[2] >= 160)
                  /\ (b1 = 237 => bs[2] <= 159)
               THEN cons((b1 - 224) * 4096 + (bs[2] - 128) * 64 + (bs[3] - 128), 3)
               ELSE bad
          ELSE IF b1 >= 240 /\ b1 <= 244 THEN
               IF /\ n >= 4 /\ IsCont(bs[2]) /\ IsCont(bs[3]) /\ IsCont(bs[4])
                  /\ (b1 = 240 => bs[2] >= 144)
                  /\ (b1 = 244 => bs[2] <= 143)
               THEN cons((b1 - 240) * 262144 + (bs[2] - 128) * 4096
                           + (bs[3] - 128) * 64 + (bs[4] - 128), 4)
               ELSE bad
          ELSE bad

\* a decoder that does not insist on the length of an action message
decode_action_event_lax(data) ==
    IF Len(data) < 2 THEN Invalid(data)
    ELSE IF data[2] >= 0 /\ data[2] <= 11 THEN Action(ActionTable[data[2] + 1])
    ELSE Invalid(data)

decode_action_event(data) ==
    IF Len(data) # 2 THEN Invalid(data)
    ELSE IF data[2] >= 0 /\ data[2] <= 11 THEN Action(ActionTable[data[2] + 1])
    ELSE Invalid(data)

\* a decoder that keeps what it can of a name that is not valid UTF-8
decode_connect_event_lossy(data) == Connected(from_utf8(Tail(data)).chars, 0)

decode_connect_event(data) ==
    LET r == from_utf8(Tail(data))
    IN  IF r.ok THEN Connected(r.chars, 0) ELSE Invalid(data)

decode_message(data) ==
    IF Len(data) = 0 THEN Invalid(<<>>)
    ELSE IF data[1] = 0 THEN decode_action_event(data)
    ELSE IF data[1] = 1 THEN decode_connect_event(data)
    ELSE Invalid(data)

(***************************************************************************)
(* What one read of a connection's inbound half returns:                   *)
(* Some(Ok(msg)), Some(Err(_)) or None.                                    *)
(***************************************************************************)
ReadMsg(bytes) == [kind |-> "msg", data |-> bytes]
ReadErr == [kind |-> "err", data |-> <<>>]
ReadClosed == [kind |-> "closed", data |-> <<>>]

\* the messages a client sends in the general specification
Msgs == { <<0, 2>>, <<5>>, <<1, 65>> }
Reads == { ReadMsg(m) : m \in Msgs } \cup { ReadErr, ReadClosed }

\* malformed messages: empty, unknown tag, bad length (short and long),
\* unknown action code, invalid UTF-8 in a connect message
InvalidMsgs == { <<>>, <<5>>, <<0>>, <<0, 1, 2>>, <<0, 12>>, <<1, 255>> }

\* the connect message of a client named "Alice", and what clients send in
\* the scenario built on it (the connect message, also repeated, an action,
\* or the end of the stream)
AliceMsg == <<1, 65, 108, 105, 99, 101>>
AliceReads == { ReadMsg(AliceMsg), ReadMsg(<<0, 2>>), ReadClosed }

\* inputs of the codec: the empty message, every message of one or two
\* bytes over CodecBytes (first byte 0, 1 or another tag), and longer ones:
\* actions of a wrong length, names of several bytes, names in two-, three-
\* and four-byte UTF-8 sequences, and invalid UTF-8 (a lone continuation
\* byte, a truncated sequence, an overlong form, a surrogate, a byte 255)
CodecBytes == (0..13) \cup {65, 127, 128, 191, 194, 255}
CodecMsgs ==
    { <<>> }
    \cup { <<b>> : b \in CodecBytes }
    \cup { <<b1, b2>> : b1 \in {0, 1, 2, 255}, b2 \in CodecBytes }
    \cup { <<0, 1, 2>>, <<0, 2, 0>>, <<2, 1, 2>>, AliceMsg,
           <<1, 194, 169>>, <<1, 226, 130, 172>>, <<1, 240, 159, 146, 150>>,
           <<1, 237, 160, 128>>, <<1, 192, 128>>, <<1, 65, 255>> }

\* a client holding one key sends RightPressed / RightReleased alternately
FloodMsg(i) == IF i % 2 = 0 THEN <<0, 2>> ELSE <<0, 3>>

\* a client that first overflows its action queue and then sends unknown-tag
\* messages until the general channel overflows
GeneralFloodMsg(i) ==
    IF i < EVENT_CHANNEL_BUF_SIZE + OverflowReads THEN FloodMsg(i) ELSE <<5>>
GeneralFloodReads == 2 * (EVENT_CHANNEL_BUF_SIZE + OverflowReads)

VARIABLES
    lpc,                 \* position of setup_network / websocket_listener
    exit,                \* an AppExit event was sent
    tls,                 \* websocket_listener's tls: the acceptor is Some
    client_addr,         \* per connection: the remote SocketAddr accept returned
    client_tls,          \* per connection: the tls handed to its handler is Some
    id_generator,        \* PlayerIdGenerator.id
    hpc,                 \* per connection: position of websocket_client_handler
    reads,               \* messages read so far in all Serve loops (bounds the model)
    channel,             \* the unbounded ingress channel (channel_tx / channel_rx)
    dpc,                 \* position of event_message_handler
    cur,                 \* the EventMessage event_message_handler is processing
    client_channels_tx,  \* dispatcher-local senders: set of PlayerId keys
    client_channels,     \* NetworkContext.client_channels: PlayerId -> buffered actions
    client_websockets,   \* NetworkContext.client_websockets: PlayerId -> sink
    common_client,       \* the bounded general channel
    lock,                \* holder of the Mutex<NetworkContext>
    poisoned,            \* the mutex was poisoned by a panic under the lock
    spc,                 \* position of the simulation loop's reader systems
    player_ids,          \* ActionMessageIter.player_ids
    cur_player_idx,      \* ActionMessageIter.cur_player_idx (0-based)
    event_timer,         \* EventTimer: the timer just finished at its last tick
    players,             \* the Players resource: PlayerId -> Player (its PlayerAction)
    enqueued,            \* history: [event, raw] each handler put into the ingress channel
    processed,           \* history: events the dispatcher dequeued, per PlayerId
    forwarded,           \* history: events the general channel accepted, per PlayerId
    routed,              \* history: actions accepted by each player's action queue
    delivered,           \* history: non-None actions yielded per PlayerId
    iter_keys,           \* history: keys of client_websockets when iter_action was called
    iter_out             \* history: pairs yielded by the current ActionMessageIter

vars == << lpc, exit, tls, client_addr, client_tls, players, event_timer, id_generator, hpc, reads, channel, dpc, cur, client_channels_tx,
           client_channels, client_websockets, common_client, lock, poisoned,
           spc, player_ids, cur_player_idx, enqueued, processed, forwarded,
           routed, delivered, iter_keys, iter_out >>

startup_vars == << lpc, exit, tls, client_addr, client_tls >>
handler_vars == << hpc, reads >>
dispatcher_vars == << dpc, cur, client_channels_tx >>
session_vars == << client_channels, client_websockets >>
iter_vars == << player_ids, cur_player_idx, iter_keys, iter_out, players, event_timer >>

NoMsg == EventMessage(0, Disconnected)

\* a SocketAddr: V4 with four octets, V6 with eight segments
V4(a, b, c, d) == [v |-> 4, ip |-> << a, b, c, d >>]
V6(segs) == [v |-> 6, ip |-> segs]
NoAddr == [v |-> 0, ip |-> <<>>]

Init ==
    /\ lpc = "setup"
    /\ exit = FALSE
    /\ tls = FALSE
    /\ client_addr = [p \in PlayerIds |-> NoAddr]
    /\ client_tls = [p \in PlayerIds |-> FALSE]
    /\ players = <<>>
    /\ event_timer = FALSE
    /\ id_generator = 1
    /\ hpc = [p \in PlayerIds |-> "unspawned"]
    /\ reads = 0
    /\ channel = <<>>
    /\ dpc = "recv"
    /\ cur = NoMsg
    /\ client_channels_tx = {}
    /\ client_channels = <<>>
    /\ client_websockets = <<>>
    /\ common_client = <<>>
    /\ lock = "free"
    /\ poisoned = FALSE
    /\ spc = "idle"
    /\ player_ids = <<>>
    /\ cur_player_idx = 0
    /\ enqueued = [p \in PlayerIds |-> <<>>]
    /\ processed = [p \in PlayerIds |-> <<>>]
    /\ forwarded = [p \in PlayerIds |-> <<>>]
    /\ routed = [p \in PlayerIds |-> <<>>]
    /\ delivered = [p \in PlayerIds |-> <<>>]
    /\ iter_keys = {}
    /\ iter_out = <<>>

(***************************************************************************)
(* common/skitspel/src: PlayerAction and Player                            *)
(***************************************************************************)
\* action.rs lines 2-17 and player.rs lines 69-77: a new Player carries the
\* default PlayerAction
Player_new ==
    [up_pressed |-> FALSE, right_pressed |-> FALSE, down_pressed |-> FALSE,
     left_pressed |-> FALSE, a_pressed |-> FALSE, b_pressed |-> FALSE,
     prev_action |-> ActionNone, new_action_since_last_read |-> FALSE]

\* player.rs lines 79-98
update_action(player, action_event) ==
    LET pressed ==
            CASE action_event = "UpPressed" -> [player EXCEPT !.up_pressed = TRUE]
              [] action_event = "UpReleased" -> [player EXCEPT !.up_pressed = FALSE]
              [] action_event = "RightPressed" -> [player EXCEPT !.right_pressed = TRUE]
              [] action_event = "RightReleased" -> [player EXCEPT !.right_pressed = FALSE]
              [] action_event = "DownPressed" -> [player EXCEPT !.down_pressed = TRUE]
              [] action_event = "DownReleased" -> [player EXCEPT !.down_pressed = FALSE]
              [] action_event = "LeftPressed" -> [player EXCEPT !.left_pressed = TRUE]
              [] action_event = "LeftReleased" -> [player EXCEPT !.left_pressed = FALSE]
              [] action_event = "APressed" -> [player EXCEPT !.a_pressed = TRUE]
              [] action_event = "AReleased" -> [player EXCEPT !.a_pressed = FALSE]
              [] action_event = "BPressed" -> [player EXCEPT !.b_pressed = TRUE]
              [] action_event = "BReleased" -> [player EXCEPT !.b_pressed = FALSE]
              [] OTHER -> player
    IN  [pressed EXCEPT !.prev_action = action_event,
                        !.new_action_since_last_read = TRUE]

\* player.rs lines 109-116
has_no_action(player) ==
    /\ ~player.up_pressed
    /\ ~player.right_pressed
    /\ ~player.down_pressed
    /\ ~player.left_pressed
    /\ ~player.a_pressed
    /\ ~player.b_pressed

(***************************************************************************)
(* Channels (smol::channel).                                               *)
(***************************************************************************)
\* the ingress receiver lives in event_message_handler; once that task is
\* gone every Sender::send on the ingress channel returns Err
channel_closed == dpc = "panicked"

\* a send into an ingress channel bounded like the other queues
channel_send_bounded(ch, msg) ==
    IF Len(ch) < EVENT_CHANNEL_BUF_SIZE THEN Append(ch, msg) ELSE ch

\* Sender::send on the unbounded ingress channel: never waits
channel_send(ch, msg) == Append(ch, msg)

\* a try_send on a channel without a capacity
try_send_unbounded(buf, x) == Append(buf, x)

\* Sender::try_send on a bounded channel: a full channel rejects the message
try_send(buf, x) == IF Len(buf) < EVENT_CHANNEL_BUF_SIZE THEN Append(buf, x) ELSE buf

\* HashMap::insert and HashMap::remove
insert(map, k, v) == [q \in (DOMAIN map) \cup {k} |-> IF q = k THEN v ELSE map[q]]
remove(map, k) == [q \in (DOMAIN map) \ {k} |-> map[q]]

RECURSIVE Orders(_)
\* the orders in which HashMap::keys may enumerate a key set
Orders(S) ==
    IF S = {} THEN { <<>> }
    ELSE UNION { { <<x>> \o o : o \in Orders(S \ {x}) } : x \in S }

(***************************************************************************)
(* common/skitspel/src/player.rs: PlayerIdGenerator                        *)
(***************************************************************************)
\* a generator that forgets to advance
generate_same(id) == [player_id |-> id, id |-> id]

\* lines 38-42: return self.id and increment it
generate(id) == [player_id |-> id, id |-> id + 1]

(***************************************************************************)
(* network.rs: is_private_address                                          *)
(***************************************************************************)
\* std::net::Ipv4Addr: 10.0.0.0/8, 172.16.0.0/12 and 192.168.0.0/16
is_private(ip) ==
    \/ ip[1] = 10
    \/ ip[1] = 172 /\ ip[2] \in 16..31
    \/ ip[1] = 192 /\ ip[2] = 168

\* 127.0.0.0/8 for V4, ::1 for V6
is_loopback(v, ip) ==
    IF v = 4 THEN ip[1] = 127 ELSE ip = << 0, 0, 0, 0, 0, 0, 0, 1 >>

\* 169.254.0.0/16
is_link_local(ip) == ip[1] = 169 /\ ip[2] = 254

\* 255.255.255.255
is_broadcast(ip) == ip = << 255, 255, 255, 255 >>

\* 192.0.2.0/24, 198.51.100.0/24 and 203.0.113.0/24
is_documentation(ip) ==
    \/ ip[1] = 192 /\ ip[2] = 0 /\ ip[3] = 2
    \/ ip[1] = 198 /\ ip[2] = 51 /\ ip[3] = 100
    \/ ip[1] = 203 /\ ip[2] = 0 /\ ip[3] = 113

\* 0.0.0.0 for V4, :: for V6
is_unspecified(v, ip) ==
    IF v = 4 THEN ip = << 0, 0, 0, 0 >> ELSE ip = << 0, 0, 0, 0, 0, 0, 0, 0 >>

\* std::net::Ipv6Addr: ff00::/8
is_multicast(ip) == ip[1] \div 256 = 255

\* a policy that forgets the documentation ranges
is_private_address_no_documentation(socket_addr) ==
    IF socket_addr.v = 4
    THEN LET ip == socket_addr.ip
         IN  \/ is_private(ip)
             \/ is_loopback(4, ip)
             \/ is_link_local(ip)
             \/ is_broadcast(ip)
             \/ is_unspecified(4, ip)
    ELSE LET ip == socket_addr.ip
         IN  is_loopback(6, ip) \/ is_multicast(ip) \/ is_unspecified(6, ip)

\* lines 508-524
is_private_address(socket_addr) ==
    IF socket_addr.v = 4
    THEN LET ip == socket_addr.ip
         IN  \/ is_private(ip)
             \/ is_loopback(4, ip)
             \/ is_link_local(ip)
             \/ is_broadcast(ip)
             \/ is_documentation(ip)
             \/ is_unspecified(4, ip)
    ELSE LET ip == socket_addr.ip
         IN  is_loopback(6, ip) \/ is_multicast(ip) \/ is_unspecified(6, ip)

\* the remote address of the connections of the specifications that do not
\* vary it
Localhost == V4(127, 0, 0, 1)

(***************************************************************************)
(* network.rs: websocket_listener                                          *)
(***************************************************************************)
\* lines 172-193 of setup_network: with a TLSCertificate configured the TLS
\* acceptor is created (a failure sends AppExit and returns), without one
\* tls is None; then the listener task is spawned
setup_network(tls_cert, tls_ok) ==
    /\ lpc = "setup"
    /\ IF tls_cert /\ ~tls_ok
       THEN lpc' = "unspawned" /\ exit' = TRUE /\ UNCHANGED tls
       ELSE lpc' = "bind" /\ tls' = tls_cert /\ UNCHANGED exit
    /\ UNCHANGED << client_addr, client_tls, id_generator, handler_vars, channel, dispatcher_vars,
                    session_vars, common_client, lock, poisoned, spc, iter_vars,
                    enqueued, processed, forwarded, routed, delivered >>

\* lines 319-330: bind the listening socket; on Err the task prints the
\* error and returns
websocket_listener_bind(ok) ==
    /\ lpc = "bind"
    /\ lpc' = IF ok THEN "accept" ELSE "stopped"
    /\ UNCHANGED << exit, tls, client_addr, client_tls, id_generator, handler_vars, channel, dispatcher_vars,
                    session_vars, common_client, lock, poisoned, spc, iter_vars,
                    enqueued, processed, forwarded, routed, delivered >>

\* lines 333-349: one accepted connection from addr: the TLS decision, a
\* fresh PlayerId and a spawned handler
websocket_listener(maxp, addr) ==
    /\ lpc = "accept"
    /\ id_generator <= maxp
    /\ LET g == generate(id_generator)
       IN  /\ id_generator' = g.id
           /\ client_addr' = [client_addr EXCEPT ![g.player_id] = addr]
           /\ client_tls' = [client_tls EXCEPT ![g.player_id] =
                  IF ~is_private_address(addr) THEN tls ELSE FALSE]
           /\ hpc' = [hpc EXCEPT ![g.player_id] = "handshake"]
    /\ UNCHANGED << lpc, exit, tls, reads, channel, dispatcher_vars, session_vars, common_client,
                    lock, poisoned, spc, iter_vars, enqueued, processed, forwarded, routed,
                    delivered >>

\* lines 351-361: accept returned Err: the error is printed and the loop is
\* left
websocket_listener_accept_err ==
    /\ lpc = "accept"
    /\ lpc' = "stopped_listening"
    /\ UNCHANGED << exit, tls, client_addr, client_tls, id_generator, handler_vars,
                    channel, dispatcher_vars, session_vars, common_client, lock,
                    poisoned, spc, iter_vars, enqueued, processed, forwarded, routed,
                    delivered >>

(***************************************************************************)
(* network.rs: websocket_client_handler                                    *)
(***************************************************************************)
\* what the handler puts into the ingress channel for a message read in Serve
serve_event(data) == decode_message(data)

\* the handler's send into the ingress channel; Err (nothing enqueued) once
\* the receiver is gone
\* the history keeps, beside the event, the bytes it was decoded from
handler_send(p, e, raw) ==
    IF channel_closed
    THEN UNCHANGED << channel, enqueued >>
    ELSE /\ channel' = channel_send(channel, EventMessage(p, e))
         /\ enqueued' = [enqueued EXCEPT ![p] = Append(@, [event |-> e, raw |-> raw])]

\* lines 378-399: TLS accept and websocket upgrade
client_handler_handshake(p, ok) ==
    /\ hpc[p] = "handshake"
    /\ hpc' = [hpc EXCEPT ![p] = IF ok THEN "await_connect" ELSE "aborted"]
    /\ UNCHANGED << startup_vars, id_generator, reads, channel, dispatcher_vars, session_vars,
                    common_client, lock, poisoned, spc, iter_vars, enqueued,
                    processed, forwarded, routed, delivered >>

\* a handler that registers whatever its first message decodes to
is_connect_any(e) == TRUE

\* line 420: if let NetworkEvent::General(GeneralEvent::Connected(name, _))
is_connect(e) == e.kind = "Connected"

\* lines 401-442: the first message must decode to Connected; Register
client_handler_await_connect(p, r) ==
    /\ hpc[p] = "await_connect"
    /\ LET connect_event == decode_message(r.data)
       IN  IF r.kind = "msg" /\ is_connect(connect_event)
           THEN /\ handler_send(p, Connected(connect_event.name, p), r.data)
                /\ hpc' = [hpc EXCEPT ![p] = IF channel_closed THEN "aborted" ELSE "serve"]
           ELSE /\ hpc' = [hpc EXCEPT ![p] = "aborted"]
                /\ UNCHANGED << channel, enqueued >>
    /\ UNCHANGED << startup_vars, id_generator, reads, dispatcher_vars, session_vars,
                    common_client, lock, poisoned, spc, iter_vars,
                    processed, forwarded, routed, delivered >>

\* lines 444-471: one turn of the Serve loop
client_handler_serve(p, r, maxreads) ==
    /\ hpc[p] = "serve"
    /\ IF r.kind = "msg"
       THEN /\ reads < maxreads
            /\ reads' = reads + 1
            /\ handler_send(p, serve_event(r.data), r.data)
            /\ UNCHANGED hpc
       ELSE /\ hpc' = [hpc EXCEPT ![p] = "deregister"]
            /\ UNCHANGED << reads, channel, enqueued >>
    /\ UNCHANGED << startup_vars, id_generator, dispatcher_vars, session_vars,
                    common_client, lock, poisoned, spc, iter_vars,
                    processed, forwarded, routed, delivered >>

\* lines 473-486: the final Disconnected
client_handler_deregister(p) ==
    /\ hpc[p] = "deregister"
    /\ handler_send(p, Disconnected, <<>>)
    /\ hpc' = [hpc EXCEPT ![p] = "stopped"]
    /\ UNCHANGED << startup_vars, id_generator, reads, dispatcher_vars, session_vars,
                    common_client, lock, poisoned, spc, iter_vars,
                    processed, forwarded, routed, delivered >>

(***************************************************************************)
(* network.rs: event_message_handler                                       *)
(***************************************************************************)
\* a receive that takes the newest message
channel_recv_newest(ch) == ch[Len(ch)]

\* Receiver::recv on the ingress channel: the oldest message
channel_recv(ch) == Head(ch)

\* what Receiver::recv leaves in the ingress channel
after_channel_recv(ch) == Tail(ch)

\* a registration that creates no action queue
register_channel_skipped(cc, p) == cc

\* lines 247-248: a new, empty action queue under the PlayerId
register_channel(cc, p) == insert(cc, p, <<>>)

\* a registration that drops the sink instead of storing it
register_sink_dropped(ws, p, sink) == ws

\* line 250: the sink under the PlayerId
register_sink(ws, p, sink) == insert(ws, p, sink)

\* lines 298-300: remove and close the action queue
unregister_channel(cc, p) == remove(cc, p)

\* a removal block that forgets the sink
unregister_sink_kept(ws, p) == ws

\* line 301: remove the sink
unregister_sink(ws, p) == remove(ws, p)

\* a routing step that makes room by dropping the oldest queued action
route_action_drop_oldest(buf, a) ==
    IF Len(buf) < EVENT_CHANNEL_BUF_SIZE THEN Append(buf, a) ELSE Append(Tail(buf), a)

\* line 263: entry.get_mut().try_send(car_event), the result ignored
route_action(buf, a) == try_send(buf, a)

\* an offer that makes room by dropping the oldest general event
route_invalid_drop_oldest(q, msg) ==
    IF Len(q) < EVENT_CHANNEL_BUF_SIZE THEN Append(q, msg) ELSE Append(Tail(q), msg)

\* lines 274-277: common_client_tx.try_send(..), the result ignored
route_invalid(q, msg) == try_send(q, msg)

\* lines 232-236: take the next ingress message
event_message_handler_recv ==
    /\ dpc = "recv"
    /\ channel # <<>>
    /\ LET msg == channel_recv(channel)
       IN  /\ cur' = msg
           /\ channel' = after_channel_recv(channel)
           /\ processed' = [processed EXCEPT ![msg.player_id] = Append(@, msg.event)]
           /\ dpc' = IF msg.event.kind = "Connected" THEN "connect" ELSE "route"
    /\ UNCHANGED << startup_vars, id_generator, handler_vars, client_channels_tx, session_vars,
                    common_client, lock, poisoned, spc, iter_vars, enqueued,
                    forwarded, routed, delivered >>

\* lines 245-249 (and 252): lock the context; a Connected without a sink
\* panics under the lock, otherwise the action queue is created
event_message_handler_connect ==
    /\ dpc = "connect"
    /\ lock = "free"
    /\ IF cur.event.sink # 0
       THEN /\ lock' = "dispatcher"
            /\ client_channels' = register_channel(client_channels, cur.player_id)
            /\ client_channels_tx' = client_channels_tx \cup {cur.player_id}
            /\ dpc' = "connect_sink"
            /\ UNCHANGED poisoned
       ELSE /\ dpc' = "panicked"
            /\ poisoned' = TRUE
            /\ client_channels_tx' = {}
            /\ UNCHANGED << lock, client_channels >>
    /\ UNCHANGED << startup_vars, id_generator, handler_vars, channel, cur, client_websockets,
                    common_client, spc, iter_vars, enqueued, processed, forwarded, routed,
                    delivered >>

\* a registration that leaves the sink in the event as well
take_copy(msg) == msg

\* line 246: sink_opt.take() leaves None in the event
take(msg) == [msg EXCEPT !.event.sink = 0]

\* lines 250-254: store the sink taken out of the event, unlock
event_message_handler_connect_sink ==
    /\ dpc = "connect_sink"
    /\ client_websockets' = register_sink(client_websockets, cur.player_id, cur.event.sink)
    /\ cur' = take(cur)
    /\ lock' = "free"
    /\ dpc' = "route"
    /\ UNCHANGED << startup_vars, id_generator, handler_vars, channel, client_channels_tx,
                    client_channels, common_client, poisoned, spc, iter_vars,
                    enqueued, processed, forwarded, routed, delivered >>

\* a dispatcher that tears a player down on an Invalid as on a Disconnected
after_route_closing(e) ==
    IF e.kind \in {"Disconnected", "Invalid"} THEN "disconnect" ELSE "recv"

\* where the loop body goes after the routing step
after_route(e) == IF e.kind = "Disconnected" THEN "disconnect" ELSE "recv"

\* lines 256-269: an Action goes to the player's queue by try_send
event_message_handler_action ==
    /\ dpc = "route"
    /\ cur.event.kind = "Action"
    /\ LET p == cur.player_id
       IN  IF p \in client_channels_tx
           THEN /\ IF p \in DOMAIN client_channels
                   THEN LET buf == route_action(client_channels[p], cur.event.action)
                        IN  /\ client_channels' = [client_channels EXCEPT ![p] = buf]
                            /\ routed' = [routed EXCEPT ![p] =
                                   IF buf # client_channels[p]
                                   THEN Append(@, cur.event.action) ELSE @]
                   ELSE UNCHANGED << client_channels, routed >>
                /\ dpc' = after_route(cur.event)
                /\ UNCHANGED client_channels_tx
           ELSE /\ dpc' = "panicked"
                /\ client_channels_tx' = {}
                /\ UNCHANGED << client_channels, routed >>
    /\ UNCHANGED << startup_vars, id_generator, handler_vars, channel, cur, client_websockets,
                    common_client, lock, poisoned, spc, iter_vars, enqueued,
                    processed, forwarded, delivered >>

\* lines 270-277: an Invalid is offered to the general channel by try_send
event_message_handler_invalid ==
    /\ dpc = "route"
    /\ cur.event.kind = "Invalid"
    /\ common_client' = route_invalid(common_client, EventMessage(cur.player_id, clone(cur.event)))
    /\ forwarded' = [forwarded EXCEPT ![cur.player_id] =
                        IF common_client' # common_client
                        THEN Append(@, clone(cur.event)) ELSE @]
    /\ dpc' = after_route(cur.event)
    /\ UNCHANGED << startup_vars, id_generator, handler_vars, channel, cur, client_channels_tx,
                    session_vars, lock, poisoned, spc, iter_vars, enqueued,
                    processed, routed, delivered >>

\* lines 278-286: any General event is sent with send().await, which waits
\* while the general channel is full
event_message_handler_general ==
    /\ dpc = "route"
    /\ cur.event.kind \in {"Connected", "Disconnected"}
    /\ Len(common_client) < EVENT_CHANNEL_BUF_SIZE
    /\ common_client' = Append(common_client, EventMessage(cur.player_id, clone(cur.event)))
    /\ forwarded' = [forwarded EXCEPT ![cur.player_id] = Append(@, clone(cur.event))]
    /\ dpc' = after_route(cur.event)
    /\ UNCHANGED << startup_vars, id_generator, handler_vars, channel, cur, client_channels_tx,
                    session_vars, lock, poisoned, spc, iter_vars, enqueued,
                    processed, routed, delivered >>

\* lines 296-300: lock the context, drop the sender, remove and close the queue
event_message_handler_disconnect ==
    /\ dpc = "disconnect"
    /\ lock = "free"
    /\ lock' = "dispatcher"
    /\ client_channels_tx' = client_channels_tx \ {cur.player_id}
    /\ client_channels' = unregister_channel(client_channels, cur.player_id)
    /\ dpc' = "disconnect_sink"
    /\ UNCHANGED << startup_vars, id_generator, handler_vars, channel, cur, client_websockets,
                    common_client, poisoned, spc, iter_vars, enqueued, processed, forwarded,
                    routed, delivered >>

\* lines 301-302: remove the sink, unlock
event_message_handler_disconnect_sink ==
    /\ dpc = "disconnect_sink"
    /\ client_websockets' = unregister_sink(client_websockets, cur.player_id)
    /\ lock' = "free"
    /\ dpc' = "recv"
    /\ UNCHANGED << startup_vars, id_generator, handler_vars, channel, cur, client_channels_tx,
                    client_channels, common_client, poisoned, spc, iter_vars,
                    enqueued, processed, forwarded, routed, delivered >>

(***************************************************************************)
(* server/src/main.rs and network.rs: the simulation loop's readers.  Both *)
(* systems hold the context lock from their lock().unwrap() until they     *)
(* return.                                                                 *)
(***************************************************************************)
\* a receive that takes the newest item
try_recv_newest(buf) == IF buf # <<>> THEN buf[Len(buf)] ELSE ActionNone

\* a receive that reports an empty queue whatever it holds
try_recv_none(buf) == ActionNone

\* Receiver::try_recv: the oldest buffered item, if any
try_recv(buf) == IF buf # <<>> THEN Head(buf) ELSE ActionNone

\* a receive that empties the queue
after_try_recv_drain(buf) == <<>>

\* what Receiver::try_recv leaves in the buffer
after_try_recv(buf) == IF buf # <<>> THEN Tail(buf) ELSE buf

\* network.rs line 84: self.client_websockets.keys()
snapshot_keys(ws) == DOMAIN ws

\* the sender of the general channel lives in event_message_handler
common_client_closed == dpc = "panicked"

\* main.rs line 197: handle_general_message locks the context
handle_general_message ==
    /\ spc = "idle"
    /\ lock = "free"
    /\ IF poisoned
       THEN /\ spc' = "panicked"
            /\ UNCHANGED lock
       ELSE /\ spc' = "general"
            /\ lock' = "simulation"
    /\ UNCHANGED << startup_vars, id_generator, handler_vars, channel, dispatcher_vars,
                    session_vars, common_client, poisoned, iter_vars, enqueued,
                    processed, forwarded, routed, delivered >>

\* main.rs lines 198-232: the body of handle_general_message's loop for one
\* yielded EventMessage
handle_general_event(ps, msg) ==
    CASE msg.event.kind = "Connected" -> insert(ps, msg.player_id, Player_new)
      [] msg.event.kind = "Disconnected" -> remove(ps, msg.player_id)
      [] OTHER -> ps

\* a try_recv on the general channel that takes the newest message
general_try_recv_newest(buf) == buf[Len(buf)]

\* network.rs line 104: try_recv on the general channel, Ok(msg): the oldest
general_try_recv(buf) == Head(buf)

\* network.rs lines 103-110: one call of GeneralMessageIter::next, and the
\* loop body of handle_general_message for what it yields
GeneralMessageIter_next ==
    /\ spc = "general"
    /\ IF common_client # <<>>
       THEN /\ common_client' = Tail(common_client)
            /\ players' = handle_general_event(players, general_try_recv(common_client))
            /\ UNCHANGED << spc, lock, poisoned >>
       ELSE /\ common_client' = common_client
            /\ lock' = "free"
            /\ IF common_client_closed
               THEN spc' = "panicked" /\ poisoned' = TRUE
               ELSE spc' = "idle" /\ UNCHANGED poisoned
            /\ UNCHANGED players
    /\ UNCHANGED << startup_vars, id_generator, handler_vars, channel, dispatcher_vars,
                    session_vars, player_ids, cur_player_idx, iter_keys, iter_out,
                    event_timer, enqueued, processed, forwarded, routed, delivered >>

\* an iterator that is handed out whether or not the timer just finished
gate_open(just_finished) == TRUE

\* network.rs line 83: event_timer.0.tick(time.delta()).just_finished()
gate(just_finished) == just_finished

\* main.rs lines 248-249 and network.rs lines 78-93: handle_action_message
\* locks the context and asks for the gated iterator; order is the order in
\* which the HashMap enumerates its keys
iter_action(fired, order) ==
    /\ spc = "idle"
    /\ lock = "free"
    /\ IF poisoned
       THEN /\ spc' = "panicked"
            /\ UNCHANGED << lock, iter_vars >>
       ELSE /\ event_timer' = fired
            /\ IF gate(fired)
               THEN /\ order \in Orders(snapshot_keys(client_websockets))
                    /\ player_ids' = order
                    /\ cur_player_idx' = 0
                    /\ iter_keys' = DOMAIN client_websockets
                    /\ iter_out' = <<>>
                    /\ spc' = "action"
                    /\ lock' = "simulation"
                    /\ UNCHANGED players
               ELSE UNCHANGED << spc, lock, player_ids, cur_player_idx, iter_keys,
                                 iter_out, players >>
    /\ UNCHANGED << startup_vars, id_generator, handler_vars, channel, dispatcher_vars,
                    session_vars, common_client, poisoned, enqueued, processed, forwarded,
                    routed, delivered >>

\* main.rs lines 250-262: the body of handle_action_message's loop for one
\* yielded pair: None is skipped for a player with no action, a player that
\* is not in Players is skipped altogether
handle_action_event(ps, player_id, action_event) ==
    IF player_id \in DOMAIN ps
    THEN IF has_no_action(ps[player_id]) /\ action_event = ActionNone
         THEN ps
         ELSE [ps EXCEPT ![player_id] = update_action(@, action_event)]
    ELSE ps

\* network.rs lines 123-137: one call of ActionMessageIter::next, and the
\* loop body of handle_action_message for what it yields
ActionMessageIter_next ==
    /\ spc = "action"
    /\ IF cur_player_idx >= Len(player_ids)
       THEN /\ spc' = "idle"
            /\ lock' = "free"
            /\ player_ids' = <<>>
            /\ cur_player_idx' = 0
            /\ iter_keys' = {}
            /\ iter_out' = <<>>
            /\ UNCHANGED << client_channels, delivered, players >>
       ELSE LET player_id == player_ids[cur_player_idx + 1]
            IN  IF player_id \notin DOMAIN client_channels
                THEN /\ spc' = "idle"
                     /\ lock' = "free"
                     /\ player_ids' = <<>>
                     /\ cur_player_idx' = 0
                     /\ iter_keys' = {}
                     /\ iter_out' = <<>>
                     /\ UNCHANGED << client_channels, delivered, players >>
                ELSE LET event == try_recv(client_channels[player_id])
                     IN  /\ client_channels' = [client_channels EXCEPT ![player_id] =
                                after_try_recv(@)]
                         /\ cur_player_idx' = cur_player_idx + 1
                         /\ iter_out' = Append(iter_out, << player_id, event >>)
                         /\ delivered' = [delivered EXCEPT ![player_id] =
                                IF event # ActionNone THEN Append(@, event) ELSE @]
                         /\ players' = handle_action_event(players, player_id, event)
                         /\ UNCHANGED << spc, lock, player_ids, iter_keys >>
    /\ UNCHANGED << startup_vars, id_generator, handler_vars, channel, dispatcher_vars,
                    client_websockets, common_client, poisoned, event_timer, enqueued,
                    processed, forwarded, routed >>

(***************************************************************************)
(* Specifications.                                                         *)
(***************************************************************************)
Next ==
    \/ \E tls_ok \in BOOLEAN : setup_network(TRUE, tls_ok)
    \/ \E ok \in BOOLEAN : websocket_listener_bind(ok)
    \/ websocket_listener(MaxPlayers, Localhost)
    \/ \E p \in PlayerIds, ok \in BOOLEAN : client_handler_handshake(p, ok)
    \/ \E p \in PlayerIds, r \in Reads : client_handler_await_connect(p, r)
    \/ \E p \in PlayerIds, r \in Reads : client_handler_serve(p, r, MaxReads)
    \/ \E p \in PlayerIds : client_handler_deregister(p)
    \/ event_message_handler_recv
    \/ event_message_handler_connect
    \/ event_message_handler_connect_sink
    \/ event_message_handler_action
    \/ event_message_handler_invalid
    \/ event_message_handler_general
    \/ event_message_handler_disconnect
    \/ event_message_handler_disconnect_sink
    \/ handle_general_message
    \/ GeneralMessageIter_next
    \/ \E fired \in BOOLEAN, order \in Orders(DOMAIN client_websockets) :
           iter_action(fired, order)
    \/ ActionMessageIter_next

Spec == Init /\ [][Next]_vars

\* One connection that floods the dispatcher with valid action messages, so
\* that its action queue reaches EVENT_CHANNEL_BUF_SIZE.
NextFlood ==
    \/ setup_network(FALSE, TRUE)
    \/ websocket_listener_bind(TRUE)
    \/ websocket_listener(1, Localhost)
    \/ client_handler_handshake(1, TRUE)
    \/ client_handler_await_connect(1, ReadMsg(<<1, 65>>))
    \/ client_handler_serve(1, ReadMsg(FloodMsg(reads)), FloodReads)
    \/ client_handler_serve(1, ReadClosed, FloodReads)
    \/ client_handler_deregister(1)
    \/ event_message_handler_recv
    \/ event_message_handler_connect
    \/ event_message_handler_connect_sink
    \/ event_message_handler_action
    \/ event_message_handler_general
    \/ event_message_handler_disconnect
    \/ event_message_handler_disconnect_sink
    \/ \E order \in Orders(DOMAIN client_websockets) : iter_action(TRUE, order)
    \/ ActionMessageIter_next

SpecFlood == Init /\ [][NextFlood]_vars

\* One connection whose client sends malformed messages of every kind the
\* codec rejects (empty, unknown tag, bad length, unknown action code,
\* invalid UTF-8), mixed with valid ones.
NextInvalid ==
    \/ setup_network(FALSE, TRUE)
    \/ websocket_listener_bind(TRUE)
    \/ websocket_listener(1, Localhost)
    \/ client_handler_handshake(1, TRUE)
    \/ client_handler_await_connect(1, ReadMsg(<<1, 65>>))
    \/ \E m \in InvalidMsgs \cup Msgs : client_handler_serve(1, ReadMsg(m), InvalidReads)
    \/ client_handler_serve(1, ReadClosed, InvalidReads)
    \/ client_handler_deregister(1)
    \/ event_message_handler_recv
    \/ event_message_handler_connect
    \/ event_message_handler_connect_sink
    \/ event_message_handler_action
    \/ event_message_handler_invalid
    \/ event_message_handler_general
    \/ event_message_handler_disconnect
    \/ event_message_handler_disconnect_sink
    \/ handle_general_message
    \/ GeneralMessageIter_next
    \/ \E order \in Orders(DOMAIN client_websockets) : iter_action(TRUE, order)
    \/ ActionMessageIter_next

SpecInvalid == Init /\ [][NextInvalid]_vars

\* Two connections: the first overflows its action queue and then the general
\* channel (with Invalid events); the second client arrives when the first
\* has sent all its messages, and connects and leaves while the general
\* channel may be full.
NextGeneralFlood ==
    \/ setup_network(FALSE, TRUE)
    \/ websocket_listener_bind(TRUE)
    \/ (id_generator = 1 \/ reads = GeneralFloodReads) /\ websocket_listener(2, Localhost)
    \/ \E p \in {1, 2} : client_handler_handshake(p, TRUE)
    \/ \E p \in {1, 2} : client_handler_await_connect(p, ReadMsg(<<1, 65>>))
    \/ client_handler_serve(1, ReadMsg(GeneralFloodMsg(reads)), GeneralFloodReads)
    \/ \E p \in {1, 2} : client_handler_serve(p, ReadClosed, GeneralFloodReads)
    \/ \E p \in {1, 2} : client_handler_deregister(p)
    \/ event_message_handler_recv
    \/ event_message_handler_connect
    \/ event_message_handler_connect_sink
    \/ event_message_handler_action
    \/ event_message_handler_invalid
    \/ event_message_handler_general
    \/ event_message_handler_disconnect
    \/ event_message_handler_disconnect_sink
    \/ handle_general_message
    \/ GeneralMessageIter_next

SpecGeneralFlood == Init /\ [][NextGeneralFlood]_vars

\* Two connections whose clients are named "Alice".
NextAlice ==
    \/ setup_network(FALSE, TRUE)
    \/ websocket_listener_bind(TRUE)
    \/ websocket_listener(MaxPlayers, Localhost)
    \/ \E p \in PlayerIds, ok \in BOOLEAN : client_handler_handshake(p, ok)
    \/ \E p \in PlayerIds, r \in AliceReads : client_handler_await_connect(p, r)
    \/ \E p \in PlayerIds, r \in AliceReads : client_handler_serve(p, r, MaxReads)
    \/ \E p \in PlayerIds : client_handler_deregister(p)
    \/ event_message_handler_recv
    \/ event_message_handler_connect
    \/ event_message_handler_connect_sink
    \/ event_message_handler_action
    \/ event_message_handler_general
    \/ event_message_handler_disconnect
    \/ event_message_handler_disconnect_sink
    \/ handle_general_message
    \/ GeneralMessageIter_next
    \/ \E order \in Orders(DOMAIN client_websockets) : iter_action(TRUE, order)
    \/ ActionMessageIter_next

SpecAlice == Init /\ [][NextAlice]_vars

\* One connection whose client sends arbitrary messages, as its first
\* message and in Serve; the decoded events stay in the ingress channel.
NextCodec ==
    \/ setup_network(FALSE, TRUE)
    \/ websocket_listener_bind(TRUE)
    \/ websocket_listener(1, Localhost)
    \/ client_handler_handshake(1, TRUE)
    \/ \E m \in CodecMsgs : client_handler_await_connect(1, ReadMsg(m))
    \/ \E m \in CodecMsgs : client_handler_serve(1, ReadMsg(m), CodecReads)
    \/ client_handler_serve(1, ReadClosed, CodecReads)
    \/ client_handler_deregister(1)

SpecCodec == Init /\ [][NextCodec]_vars

\* Connections that are accepted, fail or register, and leave again without
\* sending anything in Serve.
NextConnect ==
    \/ setup_network(FALSE, TRUE)
    \/ websocket_listener_bind(TRUE)
    \/ websocket_listener(MaxPlayers, Localhost)
    \/ websocket_listener_accept_err
    \/ \E p \in PlayerIds, ok \in BOOLEAN : client_handler_handshake(p, ok)
    \/ \E p \in PlayerIds, r \in Reads : client_handler_await_connect(p, r)
    \/ \E p \in PlayerIds, r \in {ReadErr, ReadClosed} : client_handler_serve(p, r, 0)
    \/ \E p \in PlayerIds : client_handler_deregister(p)
    \/ event_message_handler_recv
    \/ event_message_handler_connect
    \/ event_message_handler_connect_sink
    \/ event_message_handler_general
    \/ event_message_handler_disconnect
    \/ event_message_handler_disconnect_sink
    \/ handle_general_message
    \/ GeneralMessageIter_next
    \/ \E order \in Orders(DOMAIN client_websockets) : iter_action(TRUE, order)
    \/ ActionMessageIter_next

SpecConnect == Init /\ [][NextConnect]_vars


\* Connections from remote addresses of every class of the TLS policy, with
\* and without a configured TLSCertificate. The listener is bound to
\* Ipv4Addr::UNSPECIFIED (line 185), so accept returns V4 addresses only.
RemoteAddrs ==
    { V4(10, 0, 0, 1), V4(172, 16, 0, 1), V4(172, 32, 0, 1), V4(192, 168, 1, 1),
      V4(127, 0, 0, 1), V4(169, 254, 1, 1), V4(255, 255, 255, 255),
      V4(192, 0, 2, 1), V4(198, 51, 100, 1), V4(203, 0, 113, 1), V4(192, 0, 3, 1),
      V4(0, 0, 0, 0), V4(8, 8, 8, 8) }

NextTls ==
    \/ \E tls_cert, tls_ok \in BOOLEAN : setup_network(tls_cert, tls_ok)
    \/ \E ok \in BOOLEAN : websocket_listener_bind(ok)
    \/ \E addr \in RemoteAddrs : websocket_listener(MaxPlayers, addr)
    \/ websocket_listener_accept_err
    \/ \E p \in PlayerIds, ok \in BOOLEAN : client_handler_handshake(p, ok)

SpecTls == Init /\ [][NextTls]_vars

(***************************************************************************)
(* Properties.                                                             *)
(***************************************************************************)
Last(s) == s[Len(s)]
IsPrefix(s, t) == Len(s) <= Len(t) /\ SubSeq(t, 1, Len(s)) = s
CountKind(s, k) == Cardinality({ i \in 1..Len(s) : s[i].kind = k })

\* the dispatcher has dequeued p's first Connected and finished its
\* registration block
ConnectedProcessed(p) ==
    /\ processed[p] # <<>>
    /\ ~(Len(processed[p]) = 1 /\ cur.player_id = p
            /\ dpc \in {"connect", "connect_sink"})

\* the dispatcher has dequeued p's Disconnected and finished its removal block
DisconnectedProcessed(p) ==
    /\ CountKind(processed[p], "Disconnected") > 0
    /\ ~(cur.player_id = p /\ cur.event.kind = "Disconnected"
            /\ dpc \in {"route", "disconnect", "disconnect_sink"})

Live(p) == ConnectedProcessed(p) /\ ~DisconnectedProcessed(p)

\* C1: whenever the dispatcher is outside its two locked blocks, a PlayerId
\* is a key of client_channels and of client_websockets exactly when its
\* Connected has been processed and its Disconnected has not; once the
\* Disconnected has been processed the PlayerId is a key of neither map.
C1_LifecycleConsistency ==
    /\ lock # "dispatcher" =>
          \A p \in PlayerIds :
              /\ p \in DOMAIN client_channels <=> Live(p)
              /\ p \in DOMAIN client_websockets <=> Live(p)
    /\ \A p \in PlayerIds :
          DisconnectedProcessed(p) =>
              p \notin DOMAIN client_channels /\ p \notin DOMAIN client_websockets

\* one player was registered and removed again while another one is live
C1_Witness ==
    \E p, q \in PlayerIds :
        /\ DisconnectedProcessed(p)
        /\ p \notin DOMAIN client_websockets
        /\ Live(q)
        /\ q \in DOMAIN client_channels /\ q \in DOMAIN client_websockets
        /\ lock = "free"

\* C2: for every PlayerId the dispatcher dequeues exactly one Connected and
\* at most one Disconnected, and the Disconnected is the last event it
\* dequeues for that PlayerId.
C2_OneConnectedOneDisconnected ==
    \A p \in PlayerIds :
        processed[p] # <<>> =>
            /\ CountKind(processed[p], "Connected") = 1
            /\ CountKind(processed[p], "Disconnected") <= 1
            /\ \A i \in 1..Len(processed[p]) :
                  processed[p][i].kind = "Disconnected" => i = Len(processed[p])

\* the bytes the client sent for the event the dispatcher is processing
CurRaw == enqueued[cur.player_id][Len(processed[cur.player_id])].raw

\* what a try_send of x leaves in a bounded queue q
Offered(q, x) == IF Len(q) < EVENT_CHANNEL_BUF_SIZE THEN Append(q, x) ELSE q

C3_Step ==
    /\ \A p \in PlayerIds :
          (/\ Len(enqueued'[p]) = Len(enqueued[p]) + 1
           /\ Last(enqueued'[p]).event.kind = "Invalid")
          => /\ hpc'[p] = "serve"
             /\ Last(enqueued'[p]).event.data = Last(enqueued'[p]).raw
    /\ (dpc = "route" /\ cur.event.kind = "Invalid" /\ dpc' # dpc)
          => /\ dpc' = "recv"
             /\ UNCHANGED << client_channels, client_websockets, client_channels_tx >>
             /\ cur.player_id \in DOMAIN client_channels
             /\ cur.player_id \in DOMAIN client_websockets
             /\ cur.player_id \in client_channels_tx
             /\ common_client' =
                   Offered(common_client, EventMessage(cur.player_id, Invalid(CurRaw)))
    /\ (/\ dpc = "route" /\ cur.event.kind = "Action" /\ dpc' # dpc
        /\ CountKind(processed[cur.player_id], "Invalid") > 0)
          => /\ dpc' = "recv"
             /\ cur.player_id \in client_channels_tx
             /\ cur.player_id \in DOMAIN client_channels
             /\ client_channels' = [client_channels EXCEPT ![cur.player_id] =
                                       Offered(@, cur.event.action)]

\* C3: a message of a registered player that decodes to Invalid leaves the
\* handler in its Serve loop and the dispatcher running, keeps the player in
\* client_channels and client_websockets, is offered to the general queue
\* with the original bytes, and an action the dispatcher dequeues for that
\* player afterwards is still offered to the player's action queue.
C3_InvalidNeverFatal == [][C3_Step]_vars

\* an Invalid and then an Action of one player were processed, the action is
\* in the player's history of routed actions and the connection is open
C3_Witness ==
    \E p \in PlayerIds :
        /\ \E i, j \in 1..Len(processed[p]) :
              /\ i < j
              /\ processed[p][i].kind = "Invalid"
              /\ processed[p][j].kind = "Action"
        /\ routed[p] # <<>>
        /\ hpc[p] = "serve"
        /\ p \in DOMAIN client_channels /\ p \in DOMAIN client_websockets
        /\ dpc = "recv"

\* C4: a Connected event dequeued for an already registered PlayerId (it
\* carries no sink) is forwarded like any other general event: the
\* dispatcher's next step takes it to the routing step, and the dispatcher
\* goes on with its loop.
C4_DuplicateConnectedForwarded ==
    [][(/\ dpc = "connect"
        /\ cur.event.kind = "Connected"
        /\ cur.event.sink = 0
        /\ cur.player_id \in DOMAIN client_websockets
        /\ dpc' # dpc)
       => dpc' = "route"]_vars

\* the events a handler has put into the ingress channel
EnqueuedEvents(p) == [i \in 1..Len(enqueued[p]) |-> enqueued[p][i].event]

\* C5: a handler that reached Register and whose read loop has exited has
\* enqueued exactly one Disconnected, after every other event it enqueued;
\* no handler enqueues a Disconnected before its read loop exits.
C5_DisconnectedEnqueuedOnExit ==
    \A p \in PlayerIds :
        /\ hpc[p] = "stopped" =>
              /\ EnqueuedEvents(p) # <<>>
              /\ Last(EnqueuedEvents(p)).kind = "Disconnected"
        /\ CountKind(EnqueuedEvents(p), "Disconnected") <= 1
        /\ \A i \in 1..Len(enqueued[p]) :
              EnqueuedEvents(p)[i].kind = "Disconnected" => i = Len(enqueued[p])
        /\ hpc[p] \in {"serve", "deregister"} =>
              CountKind(EnqueuedEvents(p), "Disconnected") = 0

(***************************************************************************)
(* Fairness: the executor keeps polling every task that can make a step    *)
(* (handlers, dispatcher), the simulation loop runs its two reader systems *)
(* on every tick, and a task waiting for the context lock gets it when it  *)
(* is free again and again (strong fairness).                              *)
(***************************************************************************)
DispatcherStep ==
    \/ event_message_handler_recv
    \/ event_message_handler_connect
    \/ event_message_handler_connect_sink
    \/ event_message_handler_action
    \/ event_message_handler_invalid
    \/ event_message_handler_general
    \/ event_message_handler_disconnect
    \/ event_message_handler_disconnect_sink

GeneralReaderStep == handle_general_message \/ GeneralMessageIter_next

ActionReaderStep ==
    \/ \E order \in Orders(DOMAIN client_websockets) : iter_action(TRUE, order)
    \/ ActionMessageIter_next

FairSpec ==
    /\ Spec
    /\ \A p \in PlayerIds : WF_vars(client_handler_deregister(p))
    /\ SF_vars(DispatcherStep)
    /\ SF_vars(GeneralReaderStep)
    /\ SF_vars(ActionReaderStep)

\* SpecFlood with the dispatcher task scheduled again and again by the
\* executor and the tick gate of handle_action_message firing again and again
FairSpecFlood ==
    /\ SpecFlood
    /\ SF_vars(DispatcherStep)
    /\ SF_vars(ActionReaderStep)

\* C6: once a registered player's read loop has exited, the dispatcher
\* eventually processes its Disconnected and the PlayerId is in neither map;
\* no snapshot of the Action iterator taken afterwards holds the PlayerId.
C6_EventualCleanup ==
    /\ \A p \in PlayerIds :
          (hpc[p] = "deregister")
             ~> (/\ DisconnectedProcessed(p)
                 /\ p \notin DOMAIN client_channels
                 /\ p \notin DOMAIN client_websockets)
    /\ [](\A p \in PlayerIds : DisconnectedProcessed(p) => p \notin iter_keys)

\* the PlayerIds the current Action iterator has yielded so far
IterIds == { iter_out[i][1] : i \in 1..Len(iter_out) }

\* the next call of ActionMessageIter::next returns None
IterExhausted ==
    \/ cur_player_idx >= Len(player_ids)
    \/ player_ids[cur_player_idx + 1] \notin DOMAIN client_channels

\* C7: an Action iterator yields no PlayerId twice and none outside the key
\* set of client_websockets at the time of the call; once it is exhausted it
\* has yielded a pair for every PlayerId of that set; and every event it
\* removed from a queue it yielded, so that (one pair per player) it removes
\* at most one event from each player's queue.
C7_OnePairPerConnectedPlayer ==
    /\ spc = "action" =>
          /\ Len(iter_out) = Cardinality(IterIds)
          /\ IterIds \subseteq iter_keys
          /\ IterExhausted => IterIds = iter_keys
    /\ \A p \in DOMAIN client_channels :
          Len(routed[p]) = Len(delivered[p]) + Len(client_channels[p])

\* an iterator over two players is exhausted; it yielded an action of a
\* player who had more than one queued, and the rest is still queued
C7_Witness ==
    /\ spc = "action"
    /\ Cardinality(iter_keys) = 2
    /\ cur_player_idx = Len(player_ids)
    /\ \E i \in 1..Len(iter_out) :
          /\ iter_out[i][2] # ActionNone
          /\ client_channels[iter_out[i][1]] # <<>>

C9_Order ==
    \A p \in PlayerIds :
        /\ IsPrefix(processed[p], EnqueuedEvents(p))
        /\ \A i \in 1..Len(enqueued[p]) :
              LET e == enqueued[p][i].event
              IN  /\ (e.kind = "Connected" /\ e.sink # 0) <=> i = 1
                  /\ e.kind = "Disconnected" => i = Len(enqueued[p])
                  /\ (i > 1 /\ e.kind # "Disconnected") =>
                        e = decode_message(enqueued[p][i].raw)

C9_Step ==
    /\ (dpc = "recv" /\ dpc' # "recv") =>
          /\ cur' = Head(channel)
          /\ channel' = Tail(channel)
    /\ \/ channel' = channel
       \/ channel # <<>> /\ channel' = Tail(channel)
       \/ channel' # <<>> /\ channel = SubSeq(channel', 1, Len(channel') - 1)

\* C9: the dispatcher dequeues the events of a connection in the order the
\* handler enqueued them (Connected with the sink first, the Serve events in
\* read order, Disconnected last); it takes the oldest message of the
\* ingress channel, one at a time, and the channel is never reordered.
C9_FifoPerConnection == []C9_Order /\ [][C9_Step]_vars

\* one connection's Connected, Serve event and Disconnected were processed
\* while events of the other connection were processed too
C9_Witness ==
    \E p, q \in PlayerIds :
        /\ p # q
        /\ Len(processed[p]) >= 3
        /\ Last(processed[p]).kind = "Disconnected"
        /\ Len(processed[q]) >= 2

\* the dispatcher is about to route an Action to a queue that is full
RoutingToFullQueue ==
    /\ dpc = "route"
    /\ cur.event.kind = "Action"
    /\ cur.player_id \in DOMAIN client_channels
    /\ Len(client_channels[cur.player_id]) = EVENT_CHANNEL_BUF_SIZE

\* C10: an Action routed to a queue that holds EVENT_CHANNEL_BUF_SIZE events
\* is discarded: the queue and its order are unchanged, and the dispatcher's
\* step is enabled (it does not wait) and takes it back to the ingress
\* channel.
C10_FullQueueDropsNewest ==
    /\ [](RoutingToFullQueue => ENABLED event_message_handler_action)
    /\ [][(RoutingToFullQueue /\ dpc' # dpc) =>
             /\ client_channels' = client_channels
             /\ routed' = routed
             /\ dpc' = "recv"]_vars

\* the 21st action of a player was processed while 20 were queued
C10_Witness ==
    /\ dpc = "recv"
    /\ cur.event.kind = "Action"
    /\ 1 \in DOMAIN client_channels
    /\ Len(client_channels[1]) = EVENT_CHANNEL_BUF_SIZE
    /\ CountKind(processed[1], "Action") = EVENT_CHANNEL_BUF_SIZE + 1
    /\ Len(routed[1]) = EVENT_CHANNEL_BUF_SIZE

\* the dispatcher is about to offer an Invalid to a full general channel
RoutingInvalidToFull ==
    /\ dpc = "route"
    /\ cur.event.kind = "Invalid"
    /\ Len(common_client) = EVENT_CHANNEL_BUF_SIZE

\* the dispatcher is about to send a Connected or Disconnected to a full
\* general channel
RoutingGeneralToFull ==
    /\ dpc = "route"
    /\ cur.event.kind \in {"Connected", "Disconnected"}
    /\ Len(common_client) = EVENT_CHANNEL_BUF_SIZE

\* C11 as stated: whatever the kind of the event, the dispatcher facing a
\* full destination queue can make its step, and that step leaves the queues
\* as they are (the event is dropped) and goes on with the loop.
C11_FullQueueNeverBlocks ==
    /\ []((RoutingToFullQueue \/ RoutingInvalidToFull \/ RoutingGeneralToFull)
             => ENABLED DispatcherStep)
    /\ [][((RoutingToFullQueue \/ RoutingInvalidToFull \/ RoutingGeneralToFull)
              /\ dpc' # dpc)
            => /\ UNCHANGED << client_channels, common_client >>
               /\ dpc' \in {"recv", "disconnect"}]_vars

\* C11 amended: an Action for a full action queue and an Invalid for a full
\* general channel are dropped without waiting; a Connected or Disconnected
\* for a full general channel is never dropped: the dispatcher waits until
\* the channel has room and then appends it.
C11_FullQueueDropsOrWaits ==
    /\ []((RoutingToFullQueue \/ RoutingInvalidToFull) => ENABLED DispatcherStep)
    /\ [][((RoutingToFullQueue \/ RoutingInvalidToFull) /\ dpc' # dpc)
            => /\ UNCHANGED << client_channels, common_client >>
               /\ dpc' = "recv"]_vars
    /\ [](RoutingGeneralToFull => ~ENABLED DispatcherStep)
    /\ [][(/\ dpc = "route"
           /\ cur.event.kind \in {"Connected", "Disconnected"}
           /\ dpc' # dpc)
            => /\ Len(common_client) < EVENT_CHANNEL_BUF_SIZE
               /\ common_client' =
                     Append(common_client, EventMessage(cur.player_id, clone(cur.event)))]_vars

\* the first player's 21st action and an Invalid of it were dropped, and the
\* dispatcher now waits with the second player's Connected for room in the
\* general channel
C11_Witness ==
    /\ RoutingGeneralToFull
    /\ cur.player_id = 2
    /\ cur.event.kind = "Connected"
    /\ Len(routed[1]) = EVENT_CHANNEL_BUF_SIZE
    /\ CountKind(processed[1], "Action") > EVENT_CHANNEL_BUF_SIZE
    /\ CountKind(processed[1], "Invalid") > CountKind(forwarded[1], "Invalid")

C12_Step ==
    /\ \A p \in PlayerIds :
          enqueued'[p] # enqueued[p] =>
              channel' = Append(channel, EventMessage(p, Last(enqueued'[p]).event))
    /\ (dpc = "route" /\ cur.event.kind = "Action" /\ dpc' # dpc) =>
          /\ dpc' = "recv"
          /\ client_channels' = [client_channels EXCEPT ![cur.player_id] =
                                    Offered(@, cur.event.action)]

\* C12: a handler that has something to send into the ingress channel can
\* always make that step, whatever the length of the channel, and the step
\* appends the message; the dispatcher holding an Action can always make its
\* routing step, whether the player's queue is full or not, and the step is
\* a try-send that takes it back to the ingress channel.
C12_HotPathNeverBlocks ==
    /\ [](\A p \in PlayerIds :
            /\ hpc[p] = "await_connect" =>
                  ENABLED client_handler_await_connect(p, ReadMsg(<<1, 65>>))
            /\ (hpc[p] = "serve" /\ reads < FloodReads) =>
                  ENABLED client_handler_serve(p, ReadMsg(FloodMsg(reads)), FloodReads)
            /\ hpc[p] = "deregister" => ENABLED client_handler_deregister(p))
    /\ []((dpc = "route" /\ cur.event.kind = "Action") =>
             ENABLED event_message_handler_action)
    /\ [][C12_Step]_vars

\* the ingress channel holds more messages than a bounded queue could, the
\* handler is still serving, and the dispatcher is routing an Action
C12_Witness ==
    /\ Len(channel) > EVENT_CHANNEL_BUF_SIZE
    /\ hpc[1] = "serve"
    /\ dpc = "route"
    /\ cur.event.kind = "Action"

IsSuffix(s, t) == Len(s) <= Len(t) /\ SubSeq(t, Len(t) - Len(s) + 1, Len(t)) = s
IsGeneral(e) == e.kind \in {"Connected", "Disconnected"}
GeneralOf(s) == SelectSeq(s, IsGeneral)
Clones(s) == [i \in 1..Len(s) |-> clone(s[i])]

\* the dispatcher has dequeued a Connected or Disconnected of p and has not
\* yet passed the step that sends it to the general channel
InFlightGeneral(p) ==
    /\ cur.player_id = p
    /\ IsGeneral(cur.event)
    /\ dpc \in {"connect", "connect_sink", "route"}

\* the Connected and Disconnected events of p the dispatcher is done with
HandledGeneral(p) ==
    LET g == Clones(GeneralOf(processed[p]))
    IN  IF InFlightGeneral(p) THEN SubSeq(g, 1, Len(g) - 1) ELSE g

\* the events of p waiting in the general channel
PendingGeneral(p) ==
    LET q == SelectSeq(common_client, LAMBDA m : m.player_id = p)
    IN  [i \in 1..Len(q) |-> q[i].event]

\* how many Connected and Disconnected events of p the General iterator has
\* yielded
YieldedGeneral(p) ==
    Len(GeneralOf(forwarded[p])) - Len(GeneralOf(PendingGeneral(p)))

C13_Placed ==
    \A p \in PlayerIds :
        /\ HandledGeneral(p) = GeneralOf(forwarded[p])
        /\ IsSuffix(PendingGeneral(p), forwarded[p])

C13_Step ==
    common_client' # common_client =>
        \/ /\ Len(common_client') = Len(common_client) + 1
           /\ SubSeq(common_client', 1, Len(common_client)) = common_client
        \/ /\ spc = "general"
           /\ common_client # <<>>
           /\ common_client' = Tail(common_client)

\* C13: every Connected and Disconnected the dispatcher has handled was
\* accepted by the general channel, in order; the channel loses and repeats
\* nothing (it grows at the tail and the General iterator takes its head,
\* one event per call); and every accepted Connected or Disconnected is
\* eventually yielded.
C13_GeneralEventsNeverLost ==
    /\ []C13_Placed
    /\ [][C13_Step]_vars
    /\ \A p \in PlayerIds, n \in 1..(MaxReads + 2) :
          (Len(GeneralOf(forwarded[p])) >= n) ~> (YieldedGeneral(p) >= n)

\* the handler of p returned, or has not yet got, past its first message
NotRegistered(p) == hpc[p] \in {"unspawned", "handshake", "await_connect", "aborted"}

C14_Nothing ==
    \A p \in PlayerIds :
        /\ NotRegistered(p) =>
              /\ enqueued[p] = <<>>
              /\ \A i \in 1..Len(channel) : channel[i].player_id # p
              /\ processed[p] = <<>>
              /\ forwarded[p] = <<>>
              /\ \A i \in 1..Len(common_client) : common_client[i].player_id # p
              /\ p \notin DOMAIN client_channels
              /\ p \notin DOMAIN client_websockets
        /\ enqueued[p] # <<>> =>
              decode_message(enqueued[p][1].raw).kind = "Connected"

\* C14: a handler whose handshake failed, whose first read returned an error
\* or the end of the stream, or whose first message did not decode to
\* Connected has returned for good and has enqueued nothing: no event of its
\* PlayerId is in the ingress or the general channel, the PlayerId is in
\* neither map, and the only handlers that have enqueued anything are those
\* whose first message decoded to Connected.
C14_FailedConnectLeavesNoTrace ==
    /\ []C14_Nothing
    /\ [][\A p \in PlayerIds : hpc[p] = "aborted" => hpc'[p] = "aborted"]_vars

\* one connection was given up before Register while the other one was
\* registered and its Connected is waiting in the general channel
C14_Witness ==
    \E p, q \in PlayerIds :
        /\ hpc[p] = "aborted"
        /\ hpc[q] = "serve"
        /\ q \in DOMAIN client_websockets
        /\ common_client # <<>>
        /\ dpc = "recv"

\* the number of places that hold the outbound half of connection p: the
\* handler between the split and Register, Connected events in the ingress
\* and general channels, the message the dispatcher is working on, and the
\* entries of client_websockets
SinkOwners(p) ==
      (IF hpc[p] = "await_connect" THEN 1 ELSE 0)
    + Cardinality({ i \in 1..Len(channel) : channel[i].event.sink = p })
    + (IF dpc # "recv" /\ cur.event.sink = p THEN 1 ELSE 0)
    + Cardinality({ q \in DOMAIN client_websockets : client_websockets[q] = p })
    + Cardinality({ i \in 1..Len(common_client) : common_client[i].event.sink = p })

\* the connection of p has an outbound half that was not dropped yet
SinkAlive(p) ==
    \/ hpc[p] = "await_connect"
    \/ enqueued[p] # <<>> /\ ~DisconnectedProcessed(p)

\* C15: the outbound half of a connection is held in exactly one place while
\* it exists and nowhere afterwards, and client_websockets holds it under its
\* own PlayerId; every Connected event the general channel accepted (and so
\* every one the General iterator yields) has no sink and the name "Alice"
\* the client sent, and for a connection whose Connected the dispatcher has
\* handled there is exactly one such event.
C15_SinkHasOneOwner ==
    \A p \in PlayerIds :
        /\ SinkOwners(p) = IF SinkAlive(p) THEN 1 ELSE 0
        /\ p \in DOMAIN client_websockets => client_websockets[p] = p
        /\ \A i \in 1..Len(forwarded[p]) :
              forwarded[p][i].kind = "Connected" =>
                  forwarded[p][i] = Connected(<<65, 108, 105, 99, 101>>, 0)
        /\ IsSuffix(PendingGeneral(p), forwarded[p])
        /\ CountKind(forwarded[p], "Connected") <= 1
        /\ HandledGeneral(p) # <<>> => CountKind(forwarded[p], "Connected") = 1

\* the General iterator has yielded the one Connected event of Alice's
\* connection, whose sink is in client_websockets
C15_Witness ==
    \E p \in PlayerIds :
        /\ enqueued[p] # <<>>
        /\ enqueued[p][1].raw = AliceMsg
        /\ forwarded[p] = << Connected(<<65, 108, 105, 99, 101>>, 0) >>
        /\ PendingGeneral(p) = <<>>
        /\ p \in DOMAIN client_websockets
        /\ client_websockets[p] = p
        /\ SinkOwners(p) = 1
        /\ spc = "idle"

\* the PlayerIds generate() has returned: those a handler was spawned with
Generated == { q \in PlayerIds : hpc[q] # "unspawned" }

C16_Step ==
    \A p \in PlayerIds :
        (hpc'[p] = "handshake" /\ hpc[p] # "handshake") =>
            /\ hpc[p] = "unspawned"
            /\ Generated = {} => p = 1
            /\ \A q \in Generated : q < p
            /\ id_generator' > p

\* C16: the first PlayerId generate() returns is 1, every PlayerId it
\* returns is greater than all it returned before (so no handler is ever
\* spawned with a PlayerId that another handler has), and the ids returned
\* so far are exactly those below the generator's next id.
C16_PlayerIdMonotonic ==
    /\ [](Generated = 1..(id_generator - 1))
    /\ [][C16_Step]_vars

\* generate() has returned 1 and then 2
C16_Witness ==
    /\ id_generator = 3
    /\ Generated = {1, 2}

\* what the handler enqueued for the messages it read in its Serve loop
\* (the first entry is the registration, a last one may be the Disconnected)
ServeEntries == { enqueued[1][i] : i \in 2..(reads + 1) }

\* the action code table as the claim gives it
C17_Table ==
    [c \in 0..11 |->
        CASE c = 0 -> "UpPressed"     [] c = 1 -> "UpReleased"
          [] c = 2 -> "RightPressed"  [] c = 3 -> "RightReleased"
          [] c = 4 -> "DownPressed"   [] c = 5 -> "DownReleased"
          [] c = 6 -> "LeftPressed"   [] c = 7 -> "LeftReleased"
          [] c = 8 -> "APressed"      [] c = 9 -> "AReleased"
          [] c = 10 -> "BPressed"     [] c = 11 -> "BReleased"]

\* C17: a message [0, c] with c in 0..11 decodes to the Action the table
\* gives for c; an Action is never ActionEvent::None; and the Action
\* determines the code (no two codes decode to the same variant).
C17_CodecTableFidelity ==
    \A e \in ServeEntries :
        /\ \A c \in 0..11 : e.raw = <<0, c>> => e.event = Action(C17_Table[c])
        /\ e.event.kind = "Action" =>
              /\ e.event.action # ActionNone
              /\ Len(e.raw) = 2 /\ e.raw[1] = 0 /\ e.raw[2] \in 0..11
              /\ \A c \in 0..11 : C17_Table[c] = e.event.action => c = e.raw[2]

\* the client sent [0, 11] in Serve and BReleased was enqueued
C17_Witness ==
    \E e \in ServeEntries : e.raw = <<0, 11>> /\ e.event = Action("BReleased")

\* C18: the empty message decodes to Invalid with an empty payload; a
\* message whose first byte is neither 0 nor 1, and a message with first
\* byte 0 whose length is not 2 or whose second byte is above 11, decode to
\* Invalid carrying the message.
C18_CodecRejection ==
    \A e \in ServeEntries :
        /\ e.raw = <<>> => e.event = Invalid(<<>>)
        /\ (e.raw # <<>> /\ e.raw[1] \notin {0, 1}) => e.event = Invalid(e.raw)
        /\ (e.raw # <<>> /\ e.raw[1] = 0 /\ Len(e.raw) # 2) => e.event = Invalid(e.raw)
        /\ (Len(e.raw) = 2 /\ e.raw[1] = 0 /\ e.raw[2] > 11) => e.event = Invalid(e.raw)

\* the client sent the three-byte message [0, 1, 2] in Serve and Invalid
\* with these bytes was enqueued
C18_Witness ==
    \E e \in ServeEntries : e.raw = <<0, 1, 2>> /\ e.event = Invalid(<<0, 1, 2>>)

\* the connect messages of CodecMsgs whose name is valid UTF-8
C19_ValidText(raw) ==
    \/ raw = <<1>>
    \/ Len(raw) = 2 /\ raw[2] <= 127
    \/ raw \in { AliceMsg, <<1, 194, 169>>, <<1, 226, 130, 172>>,
                 <<1, 240, 159, 146, 150>> }

\* the name (as code points) these messages carry
C19_Name(raw) ==
    CASE raw = <<1>> -> <<>>
      [] Len(raw) = 2 -> << raw[2] >>
      [] raw = AliceMsg -> <<65, 108, 105, 99, 101>>
      [] raw = <<1, 194, 169>> -> <<169>>
      [] raw = <<1, 226, 130, 172>> -> <<8364>>
      [] raw = <<1, 240, 159, 146, 150>> -> <<128150>>

\* C19: every message read yields one event, which is an Action, a
\* Connected or an Invalid, never a Disconnected, and the same message
\* yields the same event; a message with first byte 1 yields Connected
\* with the text of the remaining bytes as name and no sink if they are
\* valid UTF-8 (the empty name for [1]), and Invalid with the message
\* otherwise.
C19_Entries ==
    /\ Len(enqueued[1]) >= reads + (IF hpc[1] \in {"serve", "deregister", "stopped"} THEN 1 ELSE 0)
    /\ \A e \in ServeEntries :
          /\ e.event.kind \in {"Action", "Connected", "Invalid"}
          /\ \A f \in ServeEntries \cup {enqueued[1][1]} :
                f.raw = e.raw => clone(f.event) = e.event
          /\ (e.raw # <<>> /\ e.raw[1] = 1) =>
                e.event = IF C19_ValidText(e.raw)
                          THEN Connected(C19_Name(e.raw), 0)
                          ELSE Invalid(e.raw)

C19_DecodeTotal ==
    /\ []C19_Entries
    /\ [][reads' # reads => Len(enqueued'[1]) = Len(enqueued[1]) + 1]_vars

\* the client sent the one-byte message [1] in Serve and a Connected with
\* the empty name and no sink was enqueued
C19_Witness ==
    \E e \in ServeEntries : e.raw = <<1>> /\ e.event = Connected(<<>>, 0)

\* C20: once binding the listening socket has failed, the process has been
\* signalled to exit (an AppExit was sent); it does not go on without a
\* listener.
C20_BindFailureFatal == lpc = "stopped" => exit

(***************************************************************************)
(* C21: an accept error is transient for the listener: after it the        *)
(* listener is still in its accept loop, so that a later connection is     *)
(* accepted, given a fresh PlayerId and handed to a new handler.           *)
(***************************************************************************)
C21_AcceptErrorKeepsListening ==
    [][lpc = "accept" => lpc' = "accept"]_vars

(***************************************************************************)
(* C22: every pair the gated action iterator yields with an action other   *)
(* than None is applied to that player's input state in Players: the       *)
(* player is in Players and its PlayerAction is updated with the yielded   *)
(* action; no input is taken from a queue and then discarded.              *)
(***************************************************************************)
C22_YieldedInputApplied ==
    [][\A p \in PlayerIds :
          delivered'[p] # delivered[p] =>
              /\ p \in DOMAIN players
              /\ players' = [players EXCEPT ![p] = update_action(@, Last(delivered'[p]))]]_vars

(***************************************************************************)
(* C23: the ingress queue is never closed (NetworkContext keeps a sender), *)
(* so the dispatcher never stops: it neither returns nor aborts.           *)
(***************************************************************************)
C23_DispatcherNeverStops == dpc # "panicked"

(***************************************************************************)
(* C24: TLS policy: the connection of every spawned handler is TLS-wrapped *)
(* if and only if a TLS acceptor was configured at startup and the remote  *)
(* address is none of private, loopback, link-local, broadcast,            *)
(* documentation or unspecified; with no acceptor every connection is      *)
(* plaintext.                                                              *)
(***************************************************************************)
C24_TlsPolicy ==
    \A p \in PlayerIds :
        hpc[p] # "unspawned" =>
            LET ip == client_addr[p].ip
            IN  /\ client_tls[p] <=>
                       /\ tls
                       /\ ~is_private(ip)
                       /\ ~is_loopback(4, ip)
                       /\ ~is_link_local(ip)
                       /\ ~is_broadcast(ip)
                       /\ ~is_documentation(ip)
                       /\ ~is_unspecified(4, ip)
                /\ ~tls => ~client_tls[p]

\* with an acceptor configured, one connection from a public address is
\* wrapped and one from a documentation address is not
C24_Witness ==
    /\ tls
    /\ \E p, q \in PlayerIds :
          /\ hpc[p] # "unspawned" /\ client_tls[p]
          /\ hpc[q] # "unspawned" /\ ~client_tls[q]
          /\ is_documentation(client_addr[q].ip)

(***************************************************************************)
(* C25: a tick whose gate did not just fire hands out no iterator and      *)
(* leaves the action queues, client_channels and client_websockets as they *)
(* are; an action leaves a player's queue only during a tick whose gate    *)
(* fired.                                                                  *)
(***************************************************************************)
C25_Consumed(p) ==
    /\ p \in DOMAIN client_channels
    /\ p \in DOMAIN client_channels'
    /\ Len(client_channels'[p]) < Len(client_channels[p])

C25_Step ==
    /\ (event_timer /\ ~event_timer') =>
           UNCHANGED << client_channels, client_websockets, delivered, iter_out, spc >>
    /\ spc' = "action" => event_timer'
    /\ \A p \in PlayerIds : C25_Consumed(p) => event_timer /\ spc = "action"

C25_GatedConsumption == [][C25_Step]_vars

\* after a firing tick that yielded an action of a player, a tick that did
\* not fire has left the player's queued action in place
C25_Witness ==
    /\ ~event_timer
    /\ spc = "idle"
    /\ \E p \in DOMAIN client_channels :
          client_channels[p] # <<>> /\ delivered[p] # <<>>

(***************************************************************************)
(* C26: the General iterator is non-blocking and FIFO: during a drain each *)
(* call is enabled at once, a call on a non-empty queue yields exactly the *)
(* oldest event and removes it, a call on the empty queue ends the drain,  *)
(* the drain ends in no other way, and no call changes client_channels,    *)
(* client_websockets or an action queue; the two maps keep their keys      *)
(* throughout the drain.                                                   *)
(***************************************************************************)
C26_Step ==
    spc = "general" =>
        /\ DOMAIN client_channels' = DOMAIN client_channels
        /\ client_websockets' = client_websockets
        /\ spc' # "general" =>
               /\ common_client = <<>>
               /\ common_client' = <<>>
               /\ spc' = "idle"
               /\ UNCHANGED << players, client_channels >>
        /\ (common_client' # common_client /\ Len(common_client') <= Len(common_client)) =>
               /\ common_client' = Tail(common_client)
               /\ players' = handle_general_event(players, Head(common_client))
               /\ spc' = "general"
               /\ UNCHANGED client_channels

C26_GeneralDrainFifo ==
    /\ [](spc = "general" => ENABLED GeneralMessageIter_next)
    /\ [][C26_Step]_vars

\* a drain in progress that has yielded the Connected of one player while
\* the Connected of another player is the oldest waiting event
C26_Witness ==
    /\ spc = "general"
    /\ common_client # <<>>
    /\ Head(common_client).event.kind = "Connected"
    /\ Head(common_client).player_id \notin DOMAIN players
    /\ players # <<>>

(***************************************************************************)
(* C27: whenever the dispatcher has dequeued an Action event of a          *)
(* PlayerId, its table of action senders has an entry for that PlayerId:   *)
(* the branch for a message from a non-existing player is never taken.     *)
(***************************************************************************)
C27_ActionFromRegisteredPlayer ==
    (dpc = "route" /\ cur.event.kind = "Action") => cur.player_id \in client_channels_tx

\* the dispatcher has dequeued an Action of a registered player
C27_Witness ==
    /\ dpc = "route"
    /\ cur.event.kind = "Action"
    /\ cur.player_id \in client_channels_tx
    /\ cur.player_id \in DOMAIN client_channels

(***************************************************************************)
(* C28: the first Connected event the dispatcher dequeues for a PlayerId   *)
(* carries a sink; on it the dispatcher creates a new, empty action queue  *)
(* and registers that sink under the PlayerId, both inside one block that  *)
(* holds the lock, so that nobody observes the one without the other.      *)
(***************************************************************************)
C28_FirstConnected ==
    /\ dpc \in {"connect", "connect_sink"}
    /\ CountKind(processed[cur.player_id], "Connected") = 1

C28_Carried ==
    /\ (dpc = "connect" /\ C28_FirstConnected) => cur.event.sink # 0
    /\ (dpc = "connect_sink" /\ C28_FirstConnected) =>
           /\ lock = "dispatcher"
           /\ cur.event.sink # 0
           /\ cur.player_id \in DOMAIN client_channels
           /\ client_channels[cur.player_id] = <<>>
           /\ cur.player_id \notin DOMAIN client_websockets

C28_Step ==
    /\ (dpc = "connect" /\ C28_FirstConnected /\ dpc' # dpc) =>
           /\ dpc' = "connect_sink"
           /\ lock = "free" /\ lock' = "dispatcher"
           /\ cur.player_id \notin DOMAIN client_channels
           /\ client_channels' = insert(client_channels, cur.player_id, <<>>)
           /\ cur.player_id \in client_channels_tx'
    /\ (dpc = "connect_sink" /\ C28_FirstConnected /\ dpc' # dpc) =>
           /\ client_websockets' =
                  insert(client_websockets, cur.player_id, cur.event.sink)
           /\ client_channels' = client_channels
           /\ lock' = "free"
    /\ (dpc = "connect_sink" /\ dpc' = dpc) =>
           UNCHANGED << client_channels, client_websockets, lock >>

C28_FirstConnectedRegisters == []C28_Carried /\ [][C28_Step]_vars

\* the registration block has run for the first Connected of a player: the
\* sink is stored under the PlayerId beside the new, empty queue
C28_Witness ==
    /\ dpc = "route"
    /\ cur.event.kind = "Connected"
    /\ CountKind(processed[cur.player_id], "Connected") = 1
    /\ client_websockets[cur.player_id] = cur.player_id
    /\ client_channels[cur.player_id] = <<>>

(***************************************************************************)
(* C29: in every reachable state the general queue holds at most           *)
(* EVENT_CHANNEL_BUF_SIZE (20) events and so does every per-player action  *)
(* queue.                                                                  *)
(***************************************************************************)
C29_QueuesBounded ==
    /\ Len(common_client) <= EVENT_CHANNEL_BUF_SIZE
    /\ \A p \in DOMAIN client_channels : Len(client_channels[p]) <= EVENT_CHANNEL_BUF_SIZE

\* both kinds of queue are full and the dispatcher has been offered more for
\* each of them than they took
C29_Witness ==
    /\ Len(common_client) = EVENT_CHANNEL_BUF_SIZE
    /\ 1 \in DOMAIN client_channels
    /\ Len(client_channels[1]) = EVENT_CHANNEL_BUF_SIZE
    /\ CountKind(processed[1], "Action") > EVENT_CHANNEL_BUF_SIZE
    /\ CountKind(processed[1], "Invalid") > CountKind(forwarded[1], "Invalid")
    /\ dpc = "recv"

(***************************************************************************)
(* C30: the dispatcher's step for an Invalid event is always enabled (it   *)
(* does not wait); with EVENT_CHANNEL_BUF_SIZE events in the general queue *)
(* the event is dropped and the queue keeps its contents, with room the    *)
(* event is appended under the sender's PlayerId with the bytes the client *)
(* sent; either way the dispatcher goes back to the ingress channel.       *)
(***************************************************************************)
C30_RoutingInvalid == dpc = "route" /\ cur.event.kind = "Invalid"

C30_Step ==
    (C30_RoutingInvalid /\ dpc' # dpc) =>
        /\ dpc' = "recv"
        /\ IF Len(common_client) = EVENT_CHANNEL_BUF_SIZE
           THEN UNCHANGED << common_client, forwarded >>
           ELSE /\ common_client' =
                       Append(common_client,
                              [player_id |-> cur.player_id, event |-> Invalid(CurRaw)])
                /\ forwarded' = [forwarded EXCEPT ![cur.player_id] =
                                     Append(@, Invalid(CurRaw))]

C30_InvalidBestEffort ==
    /\ [](C30_RoutingInvalid => ENABLED event_message_handler_invalid)
    /\ [][C30_Step]_vars

\* Invalid events of a player were appended while the general queue had
\* room, and a later one was dropped at the full queue
C30_Witness ==
    /\ dpc = "recv"
    /\ cur.event.kind = "Invalid"
    /\ Len(common_client) = EVENT_CHANNEL_BUF_SIZE
    /\ Last(common_client).event.kind = "Invalid"
    /\ Last(common_client) = [player_id |-> cur.player_id, event |-> Invalid(CurRaw)]
    /\ CountKind(forwarded[cur.player_id], "Invalid") = EVENT_CHANNEL_BUF_SIZE - 1
    /\ CountKind(processed[cur.player_id], "Invalid") >
           CountKind(forwarded[cur.player_id], "Invalid")

(***************************************************************************)
(* C31: on Disconnected the dispatcher removes the player's state only     *)
(* after forwarding: a PlayerId leaves the table of senders,               *)
(* client_channels and client_websockets only inside the removal block     *)
(* (one block that holds the lock) of its Disconnected, and then that      *)
(* Disconnected was already accepted by the general queue; while the       *)
(* dispatcher waits with a Disconnected for room in the full general queue *)
(* the PlayerId is still in both maps.                                     *)
(***************************************************************************)
C31_Forwarded(p) ==
    /\ forwarded[p] # <<>>
    /\ Last(forwarded[p]).kind = "Disconnected"
    /\ CountKind(forwarded[p], "Disconnected") = CountKind(processed[p], "Disconnected")

C31_Leaves(p) ==
    \/ p \in client_channels_tx /\ p \notin client_channels_tx'
    \/ p \in DOMAIN client_channels /\ p \notin DOMAIN client_channels'
    \/ p \in DOMAIN client_websockets /\ p \notin DOMAIN client_websockets'

C31_Waiting ==
    (RoutingGeneralToFull /\ cur.event.kind = "Disconnected") =>
        /\ cur.player_id \in client_channels_tx
        /\ cur.player_id \in DOMAIN client_channels
        /\ cur.player_id \in DOMAIN client_websockets
        /\ ~C31_Forwarded(cur.player_id)

C31_Step ==
    /\ \A p \in PlayerIds :
          (C31_Leaves(p) /\ dpc' # "panicked") =>
              /\ cur.player_id = p
              /\ cur.event.kind = "Disconnected"
              /\ dpc \in {"disconnect", "disconnect_sink"}
              /\ lock' = "dispatcher" \/ lock = "dispatcher"
              /\ C31_Forwarded(p)
    /\ (dpc = "disconnect" /\ dpc' # dpc) =>
          /\ lock = "free" /\ lock' = "dispatcher"
          /\ dpc' = "disconnect_sink"
          /\ cur.player_id \notin client_channels_tx'
          /\ cur.player_id \notin DOMAIN client_channels'
    /\ (dpc = "disconnect_sink" /\ dpc' # dpc) =>
          /\ lock = "dispatcher" /\ lock' = "free"
          /\ cur.player_id \notin DOMAIN client_websockets'
    /\ (dpc = "disconnect_sink" /\ dpc' = dpc) =>
          UNCHANGED << client_channels_tx, client_channels, client_websockets, lock >>

C31_RemoveAfterForward == []C31_Waiting /\ [][C31_Step]_vars

\* the removal block has run for a player whose Disconnected was accepted by
\* a general queue that had been full and had refused its Invalid events
C31_Witness ==
    /\ dpc = "recv"
    /\ cur.player_id \in PlayerIds
    /\ cur.event.kind = "Disconnected"
    /\ cur.player_id \notin DOMAIN client_channels
    /\ cur.player_id \notin DOMAIN client_websockets
    /\ cur.player_id \notin client_channels_tx
    /\ C31_Forwarded(cur.player_id)
    /\ CountKind(processed[cur.player_id], "Invalid") >
           CountKind(forwarded[cur.player_id], "Invalid")

(***************************************************************************)
(* C32: on Connected the dispatcher creates state before forwarding: when  *)
(* a Connected of a PlayerId enters the general queue the PlayerId is a    *)
(* key of client_channels and client_websockets, so for every Connected    *)
(* that waits in the general queue or is yielded by the General iterator   *)
(* the registration block has been completed before; and the general queue *)
(* carries a PlayerId's Connected before its Disconnected.                 *)
(***************************************************************************)
C32_Registered(p) ==
    /\ p \in DOMAIN client_channels
    /\ p \in DOMAIN client_websockets

C32_Queued ==
    \A i \in 1..Len(common_client) :
        LET p == common_client[i].player_id
        IN  /\ common_client[i].event.kind = "Connected" =>
                  /\ ConnectedProcessed(p)
                  /\ CountKind(forwarded[p], "Disconnected") = 0 => C32_Registered(p)
            /\ common_client[i].event.kind = "Disconnected" =>
                  /\ forwarded[p][1].kind = "Connected"
                  /\ \A j \in 1..Len(common_client) :
                        (common_client[j].player_id = p
                         /\ common_client[j].event.kind = "Connected") => j < i

C32_Step ==
    /\ (Len(common_client') = Len(common_client) + 1
        /\ Last(common_client').event.kind = "Connected") =>
           /\ C32_Registered(Last(common_client').player_id)
           /\ lock # "dispatcher"
    /\ (spc = "general" /\ common_client # <<>> /\ common_client' = Tail(common_client)
        /\ Head(common_client).event.kind = "Connected") =>
           /\ ConnectedProcessed(Head(common_client).player_id)
           /\ Head(common_client).player_id \in DOMAIN players'

C32_CreateBeforeForward == []C32_Queued /\ [][C32_Step]_vars

\* the Connected of one player was yielded by the General iterator, and the
\* general queue holds the Connected and then the Disconnected of another
C32_Witness ==
    \E p, q \in PlayerIds :
        /\ p # q
        /\ p \in DOMAIN players
        /\ C32_Registered(p)
        /\ Len(common_client) = 2
        /\ common_client[1].player_id = q /\ common_client[1].event.kind = "Connected"
        /\ common_client[2].player_id = q /\ common_client[2].event.kind = "Disconnected"

(***************************************************************************)
(* C33: for a player of the snapshot whose action queue is empty the       *)
(* iterator yields (PlayerId, None) and leaves the queue empty; None is    *)
(* yielded only for an empty queue, never in place of a queued event.      *)
(***************************************************************************)
C33_Step ==
    (spc = "action" /\ Len(iter_out') = Len(iter_out) + 1) =>
        LET player_id == Last(iter_out')[1]
            event == Last(iter_out')[2]
        IN  /\ player_id = player_ids[cur_player_idx + 1]
            /\ player_id \in DOMAIN client_channels
            /\ client_channels[player_id] = <<>> =>
                   /\ event = ActionNone
                   /\ client_channels'[player_id] = <<>>
            /\ event = ActionNone => client_channels[player_id] = <<>>
            /\ client_channels[player_id] # <<>> =>
                   /\ event = Head(client_channels[player_id])
                   /\ event # ActionNone

C33_NoneOnlyForEmptyQueue == [][C33_Step]_vars

\* one iteration has yielded None for a player with an empty queue and a
\* queued action for another player
C33_Witness ==
    /\ spc = "action"
    /\ Len(iter_out) = 2
    /\ \E i, j \in 1..2 :
          /\ iter_out[i][2] = ActionNone
          /\ client_channels[iter_out[i][1]] = <<>>
          /\ iter_out[j][2] # ActionNone

(***************************************************************************)
(* C34: the dispatcher is the only writer of the session state: every step *)
(* that changes the key set of client_channels or of client_websockets is  *)
(* a step of one of the dispatcher's two locked blocks and no step of the  *)
(* listener, a handler or a simulation-loop iterator; keys are added only  *)
(* while a Connected is processed and removed only while a Disconnected is *)
(* processed.                                                              *)
(***************************************************************************)
C34_KeysChanged ==
    \/ DOMAIN client_channels' # DOMAIN client_channels
    \/ DOMAIN client_websockets' # DOMAIN client_websockets

C34_KeysRemoved ==
    \/ DOMAIN client_channels \ DOMAIN client_channels' # {}
    \/ DOMAIN client_websockets \ DOMAIN client_websockets' # {}

C34_KeysAdded ==
    \/ DOMAIN client_channels' \ DOMAIN client_channels # {}
    \/ DOMAIN client_websockets' \ DOMAIN client_websockets # {}

C34_Step ==
    /\ C34_KeysChanged =>
          /\ dpc \in {"connect", "connect_sink", "disconnect", "disconnect_sink"}
          /\ dpc' # dpc
          /\ UNCHANGED << startup_vars, id_generator, handler_vars, channel, spc,
                          iter_vars, common_client >>
    /\ C34_KeysRemoved =>
          /\ cur.event.kind = "Disconnected"
          /\ dpc \in {"disconnect", "disconnect_sink"}
          /\ ~C34_KeysAdded
    /\ C34_KeysAdded =>
          /\ cur.event.kind = "Connected"
          /\ dpc \in {"connect", "connect_sink"}

C34_DispatcherOnlyWriter == [][C34_Step]_vars

\* a player was registered and removed again by the dispatcher while another
\* is registered and had an action yielded by the Action iterator
C34_Witness ==
    \E p, q \in PlayerIds :
        /\ DisconnectedProcessed(p)
        /\ p \notin DOMAIN client_channels /\ p \notin DOMAIN client_websockets
        /\ q \in DOMAIN client_channels /\ q \in DOMAIN client_websockets
        /\ delivered[q] # <<>>
        /\ hpc[q] = "serve"

(***************************************************************************)
(* C35: the dispatcher never holds the session lock while suspended: it    *)
(* holds the lock only inside its registration and removal blocks, which   *)
(* complete without waiting, and not while it awaits the ingress queue or  *)
(* room in the general queue; so whoever holds the lock can always go on   *)
(* (the dispatcher and the simulation loop never wait on each other), and  *)
(* every lock acquisition of the simulation loop succeeds and starts its   *)
(* iteration.                                                              *)
(***************************************************************************)
C35_Held ==
    /\ lock = "dispatcher" =>
          /\ dpc \in {"connect_sink", "disconnect_sink"}
          /\ ENABLED DispatcherStep
    /\ dpc \in {"recv", "route"} => lock # "dispatcher"
    /\ lock = "simulation" =>
          /\ spc \in {"general", "action"}
          /\ ENABLED (GeneralMessageIter_next \/ ActionMessageIter_next)
    /\ (lock = "free" /\ spc = "idle") => ENABLED handle_general_message

C35_Acquires ==
    (spc = "idle" /\ spc' # spc) =>
        /\ lock = "free"
        /\ lock' = "simulation"
        /\ spc' \in {"general", "action"}

C35_LockNeverHeldSuspended == []C35_Held /\ [][C35_Acquires]_vars

(***************************************************************************)
(* C36: whenever the session lock is free, client_channels,                *)
(* client_websockets and the dispatcher's table of senders have the same   *)
(* keys; and an Action iterator finds a queue for every PlayerId of its    *)
(* snapshot, so that it never ends before it has visited all of them.      *)
(***************************************************************************)
C36_KeySetsAgree ==
    /\ lock = "free" =>
          /\ DOMAIN client_channels = DOMAIN client_websockets
          /\ DOMAIN client_channels = client_channels_tx
    /\ (spc = "action" /\ cur_player_idx < Len(player_ids)) =>
          player_ids[cur_player_idx + 1] \in DOMAIN client_channels

(***************************************************************************)
(* C37: for every player, the actions other than None that the Action      *)
(* iterator has yielded under its PlayerId are a subsequence, in the same   *)
(* order, of the valid action messages that player's client sent: nothing  *)
(* is yielded twice, reordered, made up or yielded under another PlayerId, *)
(* whether or not actions were dropped at a full queue.                    *)
(***************************************************************************)
RECURSIVE IsSubseq(_, _)
IsSubseq(s, t) ==
    IF s = <<>> THEN TRUE
    ELSE IF t = <<>> THEN FALSE
    ELSE IF Head(s) = Head(t) THEN IsSubseq(Tail(s), Tail(t))
    ELSE IsSubseq(s, Tail(t))

\* the actions of the valid action messages the client of p sent in Serve,
\* decoded from the bytes it sent
SentActions(p) ==
    LET sent == SelectSeq(enqueued[p],
                          LAMBDA m : m.raw # <<>> /\ decode_message(m.raw).kind = "Action")
    IN  [i \in 1..Len(sent) |-> decode_message(sent[i].raw).action]

C37_YieldedIsSubsequenceOfSent ==
    \A p \in PlayerIds :
        /\ IsSubseq(delivered[p], SentActions(p))
        /\ Len(delivered[p]) <= Len(routed[p])
        /\ \A i \in 1..Len(delivered[p]) : delivered[p][i] # ActionNone

\* an action was dropped at the full queue, a later one was accepted, and
\* every accepted action has been yielded
C37_Witness ==
    /\ Len(routed[1]) > EVENT_CHANNEL_BUF_SIZE
    /\ CountKind(processed[1], "Action") > Len(routed[1])
    /\ delivered[1] = routed[1]
    /\ delivered[1] # SentActions(1)

(***************************************************************************)
(* C38: no input is lost below capacity: as long as no action of a player  *)
(* was routed to a full queue and the player stays connected, with the     *)
(* gate firing again and again every valid action message the player sent  *)
(* is eventually yielded by the Action iterator, exactly once: the yielded *)
(* actions catch up with the sent ones, in their order.                    *)
(***************************************************************************)
\* an action of p met a full queue, or the connection of p has ended
C38_Excused(p) ==
    \/ CountKind(processed[p], "Action") > Len(routed[p])
    \/ hpc[p] # "serve"

C38_CaughtUp(p) == delivered[p] = SentActions(p)

C38_NoInputLostBelowCapacity ==
    /\ [](\A p \in PlayerIds : IsPrefix(delivered[p], SentActions(p)) \/ C38_Excused(p))
    /\ \A p \in PlayerIds : []<>(C38_CaughtUp(p) \/ C38_Excused(p))

\* every one of EVENT_CHANNEL_BUF_SIZE and more actions a connected player
\* sent has been yielded and none met a full queue
C38_Witness ==
    /\ hpc[1] = "serve"
    /\ Len(SentActions(1)) > EVENT_CHANNEL_BUF_SIZE
    /\ delivered[1] = SentActions(1)
    /\ CountKind(processed[1], "Action") = Len(routed[1])

(***************************************************************************)
(* C39: the General iterator never observes a closed general queue:        *)
(* whenever the simulation loop polls iter_common the dispatcher, which    *)
(* holds the sender of the general queue, is running; the simulation loop  *)
(* never panics, neither on a closed channel nor on a poisoned lock.       *)
(***************************************************************************)
C39_GeneralQueueNeverClosed ==
    /\ spc = "general" => ~common_client_closed
    /\ ~poisoned
    /\ spc # "panicked"

====
